---------------------------- MODULE Spec2Model ----------------------------
(***************************************************************************)
(* Model of the borderwise-data updater scripts: the refresh planners, the *)
(* run executors and the files they persist.                               *)
(*                                                                         *)
(* Time is counted in half days (MS_PER_DAY units make one day), so that   *)
(* the code's Math.floor on day counts is a real rounding.  A record's     *)
(* duration and notes are not modelled: a record is compared by its        *)
(* requirement, lastChecked and source fields.                             *)
(***************************************************************************)
EXTENDS Integers, Sequences, FiniteSets, TLC

(***************************************************************************)
(* Bounds of the model.                                                    *)
(***************************************************************************)
\* Runs started in one behaviour.
MaxRuns == 2
\* The clock stops advancing here (half days).
MaxNow == 120
\* The largest lastPassportIndex found in progress.json.
MaxIndex == 7
\* Data lines of the CSV file of the seed import.
MaxCsvLines == 2
\* Per-run request budgets (REQUESTS_PER_RUN: 30 in smart-update, 2800 in the
\* Pro scripts, 28000 in full load), scaled to the model's pair universe.
SU_REQUESTS_PER_RUN == 2
PS_REQUESTS_PER_RUN == 3
\* Periodic save every so many requests (SAVE_INTERVAL: 50 in the Pro scripts,
\* 100 in full load), scaled with the budgets.
PS_SAVE_INTERVAL == 2
PC_REQUESTS_PER_RUN == 2
PC_SAVE_INTERVAL == 2
\* The monthly allotment of the Pro tier (3,000 requests, of which the budget
\* of a run leaves a buffer), scaled with the budget.
PC_MONTHLY_ALLOTMENT == 3
FL_REQUESTS_PER_RUN == 2
FL_SAVE_INTERVAL == 2

(***************************************************************************)
(* Program constants.                                                      *)
(***************************************************************************)
MS_PER_DAY == 2
SKIP_IF_UPDATED_WITHIN_DAYS == 30
FRESH_THRESHOLD_DAYS == 30
STALE_THRESHOLD_DAYS == 60
MAX_RETRIES == 3
BACKOFF_MULTIPLIER == 2
\* Milliseconds: the delay between requests of smart-update and of the Pro
\* scripts, and the base of the Pro scripts' backoff after a 429 and after a
\* thrown error.
SU_REQUEST_DELAY_MS == 3000
PS_REQUEST_DELAY_MS == 1100
PS_RATE_LIMIT_BACKOFF_MS == 2000
PS_ERROR_BACKOFF_MS == 1000
PASSPORTS_PER_RUN == 2
Infinity == 1000000

\* The country lists, cut to three countries; each script has its own
\* priority-passport list.
ALL_COUNTRIES == <<"GB", "NG", "FR">>
ALL_DESTINATIONS == <<"GB", "NG", "FR">>
SU_PRIORITY_PASSPORTS == <<"GB", "NG">>
PS_PRIORITY_PASSPORTS == <<"NG">>
PC_PRIORITY_PASSPORTS == <<"GB", "NG">>
ALL_PASSPORTS == <<"GB", "NG", "FR">>
DESTINATION_COUNTRIES == <<"GB", "NG", "FR">>
FL_PRIORITY_PASSPORTS == <<"NG">>

\* The clock advances between runs by 30 days.
TickSteps == {60}

None == -1

Range(s) == {s[i] : i \in DOMAIN s}

Countries == Range(ALL_COUNTRIES)
PairKeys == Countries \X Countries

(***************************************************************************)
(* Requirement records and the Ruleset.                                    *)
(***************************************************************************)
NoRecord ==
    [exists |-> FALSE, requirement |-> "", lastChecked |-> None, source |-> ""]

Rec(req, checked, src) ==
    [exists |-> TRUE, requirement |-> req, lastChecked |-> checked, source |-> src]

EmptyRules == [pr \in PairKeys |-> NoRecord]
EmptyLifecycle == [pr \in PairKeys |-> None]

\* A record that is present and whose requirement is not 'unknown'.
Good(rec) == rec.exists /\ rec.requirement # "unknown"

(***************************************************************************)
(* Strings, as JavaScript's String methods compute them.                   *)
(***************************************************************************)
LowerChar(c) ==
    CASE c = "A" -> "a" [] c = "B" -> "b" [] c = "C" -> "c" [] c = "D" -> "d"
      [] c = "E" -> "e" [] c = "F" -> "f" [] c = "G" -> "g" [] c = "H" -> "h"
      [] c = "I" -> "i" [] c = "J" -> "j" [] c = "K" -> "k" [] c = "L" -> "l"
      [] c = "M" -> "m" [] c = "N" -> "n" [] c = "O" -> "o" [] c = "P" -> "p"
      [] c = "Q" -> "q" [] c = "R" -> "r" [] c = "S" -> "s" [] c = "T" -> "t"
      [] c = "U" -> "u" [] c = "V" -> "v" [] c = "W" -> "w" [] c = "X" -> "x"
      [] c = "Y" -> "y" [] c = "Z" -> "z" [] OTHER -> c

RECURSIVE toLowerCase(_)
toLowerCase(s) ==
    IF Len(s) = 0 THEN ""
    ELSE LowerChar(SubSeq(s, 1, 1)) \o toLowerCase(SubSeq(s, 2, Len(s)))

UpperChar(c) ==
    CASE c = "a" -> "A" [] c = "b" -> "B" [] c = "c" -> "C" [] c = "d" -> "D"
      [] c = "e" -> "E" [] c = "f" -> "F" [] c = "g" -> "G" [] c = "h" -> "H"
      [] c = "i" -> "I" [] c = "j" -> "J" [] c = "k" -> "K" [] c = "l" -> "L"
      [] c = "m" -> "M" [] c = "n" -> "N" [] c = "o" -> "O" [] c = "p" -> "P"
      [] c = "q" -> "Q" [] c = "r" -> "R" [] c = "s" -> "S" [] c = "t" -> "T"
      [] c = "u" -> "U" [] c = "v" -> "V" [] c = "w" -> "W" [] c = "x" -> "X"
      [] c = "y" -> "Y" [] c = "z" -> "Z" [] OTHER -> c

RECURSIVE toUpperCase(_)
toUpperCase(s) ==
    IF Len(s) = 0 THEN ""
    ELSE UpperChar(SubSeq(s, 1, 1)) \o toUpperCase(SubSeq(s, 2, Len(s)))

\* The match of /^(\d+)$/.
IsDigits(s) ==
    /\ Len(s) > 0
    /\ \A i \in 1..Len(s) :
          SubSeq(s, i, i) \in {"0", "1", "2", "3", "4", "5", "6", "7", "8", "9"}

RECURSIVE trimStart(_)
trimStart(s) ==
    IF Len(s) > 0 /\ SubSeq(s, 1, 1) = " " THEN trimStart(SubSeq(s, 2, Len(s)))
    ELSE s

RECURSIVE trimEnd(_)
trimEnd(s) ==
    IF Len(s) > 0 /\ SubSeq(s, Len(s), Len(s)) = " "
    THEN trimEnd(SubSeq(s, 1, Len(s) - 1))
    ELSE s

trim(s) == trimEnd(trimStart(s))

includes(s, kw) ==
    \E i \in 1..(Len(s) - Len(kw) + 1) : SubSeq(s, i, i + Len(kw) - 1) = kw

(***************************************************************************)
(* normalizeRequirement of the API scripts (smart-update.js:165).          *)
(***************************************************************************)
normalizeRequirement(requirement) ==
    IF requirement = "" THEN "unknown"
    ELSE LET normalized == trim(toLowerCase(requirement)) IN
         IF \/ includes(normalized, "visa free")
            \/ includes(normalized, "visa-free")
            \/ normalized = "free"
         THEN "visa-free"
         ELSE IF \/ includes(normalized, "visa on arrival")
                 \/ includes(normalized, "voa")
         THEN "visa-on-arrival"
         ELSE IF \/ includes(normalized, "e-visa")
                 \/ includes(normalized, "evisa")
                 \/ includes(normalized, "electronic visa")
         THEN "e-visa"
         ELSE IF \/ includes(normalized, "eta")
                 \/ includes(normalized, "electronic travel")
         THEN "eta"
         ELSE IF \/ includes(normalized, "required")
                 \/ includes(normalized, "visa")
         THEN "visa-required"
         ELSE "unknown"

(***************************************************************************)
(* Array.prototype.sort: a stable sort.  c[i, j] is the comparator's value  *)
(* on s[i] and s[j] (negative when s[i] goes first).  Both comparators of  *)
(* the scripts are consistent, so the result is the one order that is      *)
(* sorted and stable.                                                      *)
(***************************************************************************)
StableSort(s, c) ==
    LET n == Len(s)
        pos(i) == Cardinality({j \in 1..n : c[j, i] < 0})
                  + Cardinality({j \in 1..(i - 1) : c[j, i] = 0}) + 1
    IN [k \in 1..n |-> s[CHOOSE i \in 1..n : pos(i) = k]]

\* slice(0, n)
Slice_Whole(s, n) == s

Slice(s, n) == SubSeq(s, 1, IF Len(s) < n THEN Len(s) ELSE n)

\* The pairs a nested loop "for p of ps, for d of ds" visits, in order.
NestedLoop(ps, ds) ==
    [k \in 1..(Len(ps) * Len(ds)) |->
        <<ps[((k - 1) \div Len(ds)) + 1], ds[((k - 1) % Len(ds)) + 1]>>]

(***************************************************************************)
(* smart-update.js: getPairsToUpdate.  priority is kept times MS_PER_DAY,  *)
(* which keeps it an integer and keeps the order of the comparator.        *)
(***************************************************************************)
\* Lines 139-145: a pair that has a good record updated less than the skip
\* threshold ago is skipped.
SU_Fresh(pr, data, lifecycle, t) ==
    /\ data[pr].exists
    /\ data[pr].requirement # "unknown"
    /\ lifecycle[pr] # None
    /\ t - lifecycle[pr] < SKIP_IF_UPDATED_WITHIN_DAYS * MS_PER_DAY

\* Lines 127-152: the work item pushed for a pair that is not skipped.
SU_Item(pr, data, lifecycle, t) ==
    LET lastUpdate == lifecycle[pr]
        currentData == data[pr]
        timeSinceUpdate == t - lastUpdate
    IN IF ~currentData.exists \/ currentData.requirement = "unknown"
       THEN [pair |-> pr, priority |-> 0, reason |-> "missing/unknown"]
       ELSE IF lastUpdate = None
       THEN [pair |-> pr, priority |-> 1 * MS_PER_DAY, reason |-> "no update record"]
       ELSE [pair |-> pr, priority |-> 2 * MS_PER_DAY + timeSinceUpdate,
             reason |-> "days old"]

\* Line 157: the comparator of pairs.sort.
SU_Compare(a, b) == a.priority - b.priority

getPairsToUpdate_KeepsFresh(data, lifecycle, t) ==
    LET loop == NestedLoop(SU_PRIORITY_PASSPORTS, ALL_DESTINATIONS)
        Pushed(pr) == pr[1] # pr[2]
        pushed == SelectSeq(loop, Pushed)
        pairs == [k \in DOMAIN pushed |-> SU_Item(pushed[k], data, lifecycle, t)]
    IN StableSort(pairs, [i, j \in DOMAIN pairs |-> SU_Compare(pairs[i], pairs[j])])

getPairsToUpdate_Unsorted(data, lifecycle, t) ==
    LET loop == NestedLoop(SU_PRIORITY_PASSPORTS, ALL_DESTINATIONS)
        Pushed(pr) == pr[1] # pr[2] /\ ~SU_Fresh(pr, data, lifecycle, t)
        pushed == SelectSeq(loop, Pushed)
    IN [k \in DOMAIN pushed |-> SU_Item(pushed[k], data, lifecycle, t)]

getPairsToUpdate(data, lifecycle, t) ==
    LET loop == NestedLoop(SU_PRIORITY_PASSPORTS, ALL_DESTINATIONS)
        Pushed(pr) == pr[1] # pr[2] /\ ~SU_Fresh(pr, data, lifecycle, t)
        pushed == SelectSeq(loop, Pushed)
        pairs == [k \in DOMAIN pushed |-> SU_Item(pushed[k], data, lifecycle, t)]
    IN StableSort(pairs, [i, j \in DOMAIN pairs |-> SU_Compare(pairs[i], pairs[j])])

(***************************************************************************)
(* import-free-dataset.js, Pro smart refresh: generateRefreshQueue.        *)
(***************************************************************************)
\* Lines 627-633.  Infinity stands for JavaScript's Infinity: it is larger
\* than every age, and the comparator's Infinity - Infinity (NaN, which sort
\* takes for 0) is 0 here too.
getDaysSinceUpdate(lastChecked, t) ==
    IF lastChecked = None THEN Infinity
    ELSE (t - lastChecked) \div MS_PER_DAY

Includes(s, x) == \E i \in DOMAIN s : s[i] = x

\* Lines 685-723: the category of a pair; "fresh" pairs are not pushed.
PS_Category(pr, data, t) ==
    LET lastChecked == data[pr].lastChecked
        daysSince == getDaysSinceUpdate(lastChecked, t)
    IN IF lastChecked = None THEN "missing"
       ELSE IF daysSince >= STALE_THRESHOLD_DAYS THEN "critical"
       ELSE IF daysSince >= FRESH_THRESHOLD_DAYS THEN "stale"
       ELSE "fresh"

PS_Item(pr, data, t) ==
    LET category == PS_Category(pr, data, t)
        priorityPassport == Includes(PS_PRIORITY_PASSPORTS, pr[1])
    IN [pair |-> pr,
        daysSince |-> getDaysSinceUpdate(data[pr].lastChecked, t),
        priority |-> IF category = "stale"
                     THEN (IF priorityPassport THEN 3 ELSE 4)
                     ELSE (IF priorityPassport THEN 1 ELSE 2),
        category |-> category]

\* Lines 728-731: the comparator of queue.sort.
PS_Compare(a, b) ==
    IF a.priority # b.priority THEN a.priority - b.priority
    ELSE b.daysSince - a.daysSince

generateRefreshQueue_KeepsFresh(data, t) ==
    LET loop == NestedLoop(ALL_COUNTRIES, ALL_COUNTRIES)
        Pushed(pr) == pr[1] # pr[2]
        pushed == SelectSeq(loop, Pushed)
        queue == [k \in DOMAIN pushed |-> PS_Item(pushed[k], data, t)]
    IN StableSort(queue, [i, j \in DOMAIN queue |-> PS_Compare(queue[i], queue[j])])

generateRefreshQueue_Unsorted(data, t) ==
    LET loop == NestedLoop(ALL_COUNTRIES, ALL_COUNTRIES)
        Pushed(pr) == pr[1] # pr[2] /\ PS_Category(pr, data, t) # "fresh"
        pushed == SelectSeq(loop, Pushed)
    IN [k \in DOMAIN pushed |-> PS_Item(pushed[k], data, t)]

generateRefreshQueue(data, t) ==
    LET loop == NestedLoop(ALL_COUNTRIES, ALL_COUNTRIES)
        Pushed(pr) == pr[1] # pr[2] /\ PS_Category(pr, data, t) # "fresh"
        pushed == SelectSeq(loop, Pushed)
        queue == [k \in DOMAIN pushed |-> PS_Item(pushed[k], data, t)]
    IN StableSort(queue, [i, j \in DOMAIN queue |-> PS_Compare(queue[i], queue[j])])

(***************************************************************************)
(* The state: the persisted files, the clock, and the memory of the one    *)
(* script that is running.                                                 *)
(***************************************************************************)
VARIABLES
    now,             \* the clock, in half days
    runs,            \* script runs started so far
    diskRules,       \* data/visa-rules.json: rules
    diskDataVersion, \* data/visa-rules.json: dataVersion
    versionFile,     \* data/version.json: dataVersion
    diskLifecycle,   \* data/lifecycle.json: lastUpdates
    script,          \* the script that runs, or "idle"
    pc,              \* where that script is
    memRules,        \* data.rules of the running script
    memLifecycle,    \* lifecycle.lastUpdates of the running script
    queue,           \* the planner's queue
    batch,           \* the budget-bounded prefix of the queue
    idx,             \* index in batch of the item being processed
    retryCount,      \* checkVisaRequirement's retryCount
    requestsThisRun, \* the Pro scripts' requestsThisRun
    updated,
    skipped,         \* skipped (smart-update), errors (the other scripts)
    stopped,         \* stopped (smart-update), rateLimited (the other scripts)
    lookups,         \* history: calls of checkVisaRequirement made by main
    startRules,      \* history: the Ruleset the run loaded
    failed,          \* history: the pairs whose lookup failed or gave 'unknown'
    lastResponse,    \* history: the HTTP response that ended the last lookup
    diskProProgress, \* data/pro-refresh-progress.json
    diskFullProgress,\* data/full-load-progress.json
    progress,        \* the progress object of Pro cursor refresh and full load
    completedSet,    \* full load's completedSet
    pIdx,            \* the cursor scripts: the loops' indices, from 0
    dIdx,
    diskProgress,    \* data/progress.json: lastPassportIndex
    startIndex,      \* the conservative updater's startIndex
    passportsToProcess,
    fileState,       \* what a reader finds in visa-rules.json and lifecycle.json
    prevRun,         \* history: the smart-update run that ended last
    readerSaw,       \* history: what a concurrent reader found in a file
    httpRequests,    \* history: HTTP requests the run has sent
    waited,          \* history: ms slept since the last HTTP request
    normalizerResult,\* history: how the last normalizeRequirement call ended
    apiFails         \* the pairs the lookup API fails on at every attempt

progressFiles == <<diskProProgress, diskFullProgress, diskProgress, fileState>>
diskVars == <<diskRules, diskDataVersion, versionFile, diskLifecycle,
              progressFiles>>
cuVars == <<startIndex, passportsToProcess>>
netVars == <<httpRequests, waited, normalizerResult, apiFails>>
histVars == <<prevRun, readerSaw, netVars>>
cursorVars == <<progress, completedSet, pIdx, dIdx, cuVars, histVars>>
loopVars == <<memRules, memLifecycle, queue, batch, idx, retryCount,
              requestsThisRun, updated, skipped, stopped, lookups, startRules,
              failed, lastResponse>>
memVars == <<loopVars, cursorVars>>
vars == <<now, runs, diskVars, script, pc, memVars>>

Resp(status, message, requirement) ==
    [status |-> status, message |-> message, requirement |-> requirement]

NoResponse == Resp(-1, "", "")

\* The memory of a script that is not running.
\* visa-rules.json and lifecycle.json as a reader finds them: "ok" (JSON with
\* its mapping), "absent", "corrupt" (not JSON), or JSON without its top-level
\* mapping ("noRules", "noLastUpdates").  A file that is not "ok" has no
\* content: diskRules, diskLifecycle are then empty.
RulesFileStates == {"ok", "absent", "corrupt", "noRules"}
LifecycleFileStates == {"ok", "absent", "corrupt", "noLastUpdates"}

FilesOk == fileState = [rules |-> "ok", lifecycle |-> "ok"]

\* No smart-update run has ended yet.
NoRead == [file |-> "none"]

NoCall == [called |-> FALSE]

NoPrevRun == [ended |-> FALSE]

\* No progress object in memory.
NoProgress == [none |-> TRUE]

\* loadProgress' defaults: import-free-dataset.js:376-381 and part_000:203-209.
DefaultProProgress ==
    [lastRefreshMonth |-> None, passportIndex |-> 0, destinationIndex |-> 0,
     totalRequestsThisMonth |-> 0]

\* completedPairs is an array the code only turns into a Set and back.
DefaultFullProgress == [completedPairs |-> {}, totalRequests |-> 0]

NoMemory ==
    /\ memRules' = EmptyRules
    /\ memLifecycle' = EmptyLifecycle
    /\ queue' = <<>>
    /\ batch' = <<>>
    /\ idx' = 0
    /\ retryCount' = 0
    /\ requestsThisRun' = 0
    /\ updated' = 0
    /\ skipped' = 0
    /\ stopped' = FALSE
    /\ lookups' = 0
    /\ startRules' = EmptyRules
    /\ failed' = {}
    /\ lastResponse' = NoResponse
    /\ progress' = NoProgress
    /\ completedSet' = {}
    /\ pIdx' = 0
    /\ dIdx' = 0
    /\ startIndex' = 0
    /\ passportsToProcess' = <<>>

(***************************************************************************)
(* The lookup API: one HTTP exchange.  status 0 stands for a fetch that    *)
(* throws (a network error).                                               *)
(***************************************************************************)
HttpResponses ==
    { Resp(0, "", ""), Resp(429, "", ""), Resp(500, "", ""),
      Resp(200, "You have exceeded the MONTHLY quota", ""),
      Resp(200, "", " Visa Free"), Resp(200, "", "No admission") }

ResponseOk(resp) == resp.status >= 200 /\ resp.status <= 299

Result(kind, record) == [kind |-> kind, record |-> record]

\* The exchange that ends a lookup neither gave a requirement the normalizer
\* recognizes nor was it a success at all.
LookupFailsOrUnknown(resp) ==
    \/ ~ResponseOk(resp)
    \/ includes(resp.message, "exceeded")
    \/ includes(resp.message, "quota")
    \/ normalizeRequirement(resp.requirement) = "unknown"

\* The history of a lookup that returned: its last response, and the pair when
\* that response was a failure or an unrecognized requirement.
LookupReturned(resp, pr) ==
    /\ lastResponse' = resp
    /\ failed' = IF LookupFailsOrUnknown(resp) THEN failed \cup {pr} ELSE failed

(***************************************************************************)
(* smart-update.js: checkVisaRequirement, one attempt.  kind "retry" is    *)
(* the recursive call with retryCount + 1.                                 *)
(***************************************************************************)
SU_checkVisaRequirement_StoresUnknown(resp, retries) ==
    IF resp.status = 0
    THEN IF retries < MAX_RETRIES THEN Result("retry", NoRecord)
         ELSE Result("null", NoRecord)
    ELSE IF resp.status = 429
    THEN IF retries < MAX_RETRIES THEN Result("retry", NoRecord)
         ELSE Result("rateLimited", NoRecord)
    ELSE IF ~ResponseOk(resp) THEN Result("null", NoRecord)
    ELSE IF resp.message # ""
            /\ (includes(resp.message, "exceeded") \/ includes(resp.message, "quota"))
    THEN Result("quotaExceeded", NoRecord)
    ELSE Result("record", Rec(normalizeRequirement(resp.requirement), None, ""))

SU_checkVisaRequirement_NoQuotaCheck(resp, retries) ==
    IF resp.status = 0
    THEN IF retries < MAX_RETRIES THEN Result("retry", NoRecord)
         ELSE Result("null", NoRecord)
    ELSE IF resp.status = 429
    THEN IF retries < MAX_RETRIES THEN Result("retry", NoRecord)
         ELSE Result("rateLimited", NoRecord)
    ELSE IF ~ResponseOk(resp) THEN Result("null", NoRecord)
    ELSE LET requirement == normalizeRequirement(resp.requirement) IN
         IF requirement = "unknown" THEN Result("null", NoRecord)
         ELSE Result("record", Rec(requirement, None, ""))

\* checkVisaRequirement with no ceiling on the retries after a 429.
SU_checkVisaRequirement_RetriesForever(resp, retries) ==
    IF resp.status = 0
    THEN IF retries < MAX_RETRIES THEN Result("retry", NoRecord)
         ELSE Result("null", NoRecord)
    ELSE IF resp.status = 429 THEN Result("retry", NoRecord)
    ELSE IF ~ResponseOk(resp) THEN Result("null", NoRecord)
    ELSE IF resp.message # ""
            /\ (includes(resp.message, "exceeded") \/ includes(resp.message, "quota"))
    THEN Result("quotaExceeded", NoRecord)
    ELSE LET requirement == normalizeRequirement(resp.requirement) IN
         IF requirement = "unknown" THEN Result("null", NoRecord)
         ELSE Result("record", Rec(requirement, None, ""))

SU_checkVisaRequirement(resp, retries) ==
    IF resp.status = 0
    THEN IF retries < MAX_RETRIES THEN Result("retry", NoRecord)
         ELSE Result("null", NoRecord)
    ELSE IF resp.status = 429
    THEN IF retries < MAX_RETRIES THEN Result("retry", NoRecord)
         ELSE Result("rateLimited", NoRecord)
    ELSE IF ~ResponseOk(resp) THEN Result("null", NoRecord)
    ELSE IF resp.message # ""
            /\ (includes(resp.message, "exceeded") \/ includes(resp.message, "quota"))
    THEN Result("quotaExceeded", NoRecord)
    ELSE LET requirement == normalizeRequirement(resp.requirement) IN
         IF requirement = "unknown" THEN Result("null", NoRecord)
         ELSE Result("record", Rec(requirement, None, ""))

(***************************************************************************)
(* smart-update.js: main.                                                  *)
(***************************************************************************)
\* Lines 272-305: load, plan, take the batch.
SU_Start ==
    /\ script = "idle"
    /\ runs < MaxRuns
    /\ fileState.rules \notin {"absent", "corrupt"}
    /\ runs' = runs + 1
    /\ script' = "su"
    /\ LET pairsToUpdate == getPairsToUpdate(diskRules, diskLifecycle, now) IN
       /\ queue' = pairsToUpdate
       /\ batch' = IF Len(pairsToUpdate) = 0 THEN <<>>
                   ELSE Slice(pairsToUpdate, SU_REQUESTS_PER_RUN)
       /\ pc' = IF Len(pairsToUpdate) = 0 THEN "done" ELSE "loop"
    /\ memRules' = diskRules
    /\ memLifecycle' = diskLifecycle
    /\ startRules' = diskRules
    /\ idx' = 1
    /\ retryCount' = 0
    /\ requestsThisRun' = 0
    /\ updated' = 0
    /\ skipped' = 0
    /\ stopped' = FALSE
    /\ lookups' = 0
    /\ failed' = {}
    /\ lastResponse' = NoResponse
    /\ UNCHANGED <<now, diskVars, cursorVars>>

\* Lines 271-272 and 71: loadData has no try; JSON.parse or readFileSync throws
\* on a corrupt or absent visa-rules.json, and main().catch exits with code 1.
SU_StartFails ==
    /\ script = "idle"
    /\ runs < MaxRuns
    /\ fileState.rules \in {"absent", "corrupt"}
    /\ runs' = runs + 1
    /\ script' = "su"
    /\ pc' = "failed"
    /\ UNCHANGED <<now, diskVars, memVars>>

\* Lines 321-334: data.rules[passport] and lifecycle.lastUpdates[passport] throw
\* a TypeError when the loaded object has no such mapping.
SU_WriteThrows ==
    fileState.rules = "noRules" \/ fileState.lifecycle = "noLastUpdates"

\* Lines 321-341: what the loop does with a result that is no stop signal.
SU_ApplyResult_WritesOnSkip(result, pr) ==
    /\ memRules' = [memRules EXCEPT ![pr] = result.record]
    /\ memLifecycle' = [memLifecycle EXCEPT ![pr] = now]
    /\ IF result.kind = "record"
       THEN updated' = updated + 1 /\ skipped' = skipped
       ELSE updated' = updated /\ skipped' = skipped + 1

SU_ApplyResult_NoLifecycle(result, pr) ==
    IF result.kind = "record"
    THEN /\ memRules' = [memRules EXCEPT ![pr] = result.record]
         /\ updated' = updated + 1
         /\ UNCHANGED <<memLifecycle, skipped>>
    ELSE /\ skipped' = skipped + 1
         /\ UNCHANGED <<memRules, memLifecycle, updated>>

\* The loop body with `updated++` left out.
SU_ApplyResult_NoCount(result, pr) ==
    IF result.kind = "record"
    THEN /\ memRules' = [memRules EXCEPT ![pr] = result.record]
         /\ memLifecycle' = [memLifecycle EXCEPT ![pr] = now]
         /\ UNCHANGED <<updated, skipped>>
    ELSE /\ skipped' = skipped + 1
         /\ UNCHANGED <<memRules, memLifecycle, updated>>

SU_ApplyResult(result, pr) ==
    IF result.kind = "record"
    THEN /\ memRules' = [memRules EXCEPT ![pr] = result.record]
         /\ memLifecycle' = [memLifecycle EXCEPT ![pr] = now]
         /\ updated' = updated + 1
         /\ skipped' = skipped
    ELSE /\ skipped' = skipped + 1
         /\ UNCHANGED <<memRules, memLifecycle, updated>>

\* Lines 307-344: one HTTP exchange of the lookup of batch[idx], and, when the
\* lookup returns, the rest of the loop body.
SU_FetchBody(resp) ==
    /\ script = "su"
    /\ pc = "loop"
    /\ ~(SU_WriteThrows /\ SU_checkVisaRequirement(resp, retryCount).kind = "record")
    /\ LET pr == batch[idx].pair
           result == SU_checkVisaRequirement(resp, retryCount)
       IN /\ lookups' = IF retryCount = 0 THEN lookups + 1 ELSE lookups
          /\ IF result.kind = "retry"
             THEN /\ retryCount' = retryCount + 1
                  /\ UNCHANGED <<pc, idx, memRules, memLifecycle, updated, skipped,
                                 stopped, failed, lastResponse>>
             ELSE /\ retryCount' = 0
                  /\ LookupReturned(resp, pr)
                  /\ IF result.kind \in {"rateLimited", "quotaExceeded"}
                     THEN /\ stopped' = TRUE
                          /\ pc' = "save"
                          /\ UNCHANGED <<idx, memRules, memLifecycle, updated, skipped>>
                     ELSE /\ SU_ApplyResult(result, pr)
                          /\ idx' = idx + 1
                          /\ pc' = IF idx + 1 > Len(batch) THEN "save" ELSE "loop"
                          /\ stopped' = stopped
    /\ UNCHANGED <<progress, completedSet, pIdx, dIdx, cuVars, prevRun,
                   readerSaw, now, runs, diskVars, script, queue, batch,
                   requestsThisRun, startRules>>

SU_Fetch(resp) == SU_FetchBody(resp) /\ UNCHANGED netVars

SU_Save_Never ==
    /\ script = "su"
    /\ pc = "save"
    /\ pc' = "done"
    /\ UNCHANGED <<now, runs, diskVars, script, memVars>>

\* Lines 307-334 when the lookup returns a record and the write throws: main
\* rejects, nothing is saved, and main().catch exits with code 1.
SU_FetchThrows(resp) ==
    /\ script = "su"
    /\ pc = "loop"
    /\ SU_WriteThrows
    /\ SU_checkVisaRequirement(resp, retryCount).kind = "record"
    /\ lookups' = IF retryCount = 0 THEN lookups + 1 ELSE lookups
    /\ lastResponse' = resp
    /\ pc' = "failed"
    /\ UNCHANGED <<cursorVars, now, runs, diskVars, script, memRules,
                   memLifecycle, queue, batch, idx, retryCount, requestsThisRun,
                   updated, skipped, stopped, startRules, failed>>

\* Lines 346-353 with saveData's first write (lines 99-101): visa-rules.json.
SU_Save ==
    /\ script = "su"
    /\ pc = "save"
    /\ IF updated > 0
       THEN /\ diskRules' = memRules
            /\ diskDataVersion' = now
            /\ pc' = "saveVersion"
       ELSE /\ pc' = "done"
            /\ UNCHANGED <<diskRules, diskDataVersion>>
    /\ UNCHANGED <<progressFiles, now, runs, versionFile, diskLifecycle, script, memVars>>

\* saveData's second write (lines 103-107): version.json.
SU_SaveVersion ==
    /\ script = "su"
    /\ pc = "saveVersion"
    /\ versionFile' = now
    /\ pc' = "saveLifecycle"
    /\ UNCHANGED <<progressFiles, now, runs, diskRules, diskDataVersion, diskLifecycle, script,
                   memVars>>

\* saveLifecycle (lines 91-93, called at line 349).
SU_SaveLifecycle ==
    /\ script = "su"
    /\ pc = "saveLifecycle"
    /\ diskLifecycle' = memLifecycle
    /\ fileState' = [fileState EXCEPT !.lifecycle = "ok"]
    /\ pc' = "done"
    /\ UNCHANGED <<diskProProgress, diskFullProgress, diskProgress, now, runs,
                   diskRules, diskDataVersion, versionFile, script, memVars>>

(***************************************************************************)
(* import-free-dataset.js, Pro smart refresh: checkVisaRequirement (one    *)
(* attempt) and main.                                                      *)
(***************************************************************************)
PS_checkVisaRequirement(resp, retries, t) ==
    IF resp.status = 0
    THEN IF retries < MAX_RETRIES THEN Result("retry", NoRecord)
         ELSE Result("null", NoRecord)
    ELSE IF resp.status = 429
    THEN IF retries < MAX_RETRIES THEN Result("retry", NoRecord)
         ELSE Result("rateLimited", NoRecord)
    ELSE IF ~ResponseOk(resp) THEN Result("null", NoRecord)
    ELSE Result("record",
                Rec(normalizeRequirement(resp.requirement), t, "rapidapi-pro"))

\* Lines 816-849: load, plan, take the prefix.
PS_Start ==
    /\ script = "idle"
    /\ runs < MaxRuns
    /\ runs' = runs + 1
    /\ script' = "ps"
    /\ LET generated == generateRefreshQueue(diskRules, now) IN
       /\ queue' = generated
       /\ batch' = IF Len(generated) = 0 THEN <<>>
                   ELSE Slice(generated, PS_REQUESTS_PER_RUN)
       /\ pc' = IF Len(generated) = 0 THEN "done" ELSE "loop"
    /\ memRules' = diskRules
    /\ memLifecycle' = EmptyLifecycle
    /\ startRules' = diskRules
    /\ idx' = 1
    /\ retryCount' = 0
    /\ requestsThisRun' = 0
    /\ updated' = 0
    /\ skipped' = 0
    /\ stopped' = FALSE
    /\ lookups' = 0
    /\ failed' = {}
    /\ lastResponse' = NoResponse
    /\ UNCHANGED <<now, diskVars, cursorVars>>

\* Lines 871-883: what the loop does with a result that is no stop signal.
PS_ApplyResult(result, pr) ==
    IF result.kind = "record"
    THEN /\ memRules' = [memRules EXCEPT ![pr] = result.record]
         /\ updated' = updated + 1
         /\ skipped' = skipped
    ELSE /\ skipped' = skipped + 1
         /\ UNCHANGED <<memRules, updated>>

PS_Fetch_NoCheckpoint(resp) ==
    /\ script = "ps"
    /\ pc = "loop"
    /\ LET pr == batch[idx].pair
           result == PS_checkVisaRequirement(resp, retryCount, now)
       IN /\ lookups' = IF retryCount = 0 THEN lookups + 1 ELSE lookups
          /\ IF result.kind = "retry"
             THEN /\ retryCount' = retryCount + 1
                  /\ UNCHANGED <<pc, idx, memRules, updated, skipped, stopped,
                                 requestsThisRun, failed, lastResponse>>
             ELSE /\ retryCount' = 0
                  /\ requestsThisRun' = requestsThisRun + 1
                  /\ LookupReturned(resp, pr)
                  /\ IF result.kind = "rateLimited"
                     THEN /\ stopped' = TRUE
                          /\ pc' = "finalRules"
                          /\ UNCHANGED <<idx, memRules, updated, skipped>>
                     ELSE /\ PS_ApplyResult(result, pr)
                          /\ idx' = idx + 1
                          /\ pc' = IF idx + 1 > Len(batch) THEN "finalRules"
                                   ELSE "loop"
                          /\ stopped' = stopped
    /\ UNCHANGED <<cursorVars, now, runs, diskVars, script, memLifecycle, queue, batch,
                   startRules>>

\* Lines 851-892: one HTTP exchange of the lookup of batch[idx], and, when the
\* lookup returns, the rest of the loop body up to the periodic save.
PS_FetchBody(resp) ==
    /\ script = "ps"
    /\ pc = "loop"
    /\ LET pr == batch[idx].pair
           result == PS_checkVisaRequirement(resp, retryCount, now)
       IN /\ lookups' = IF retryCount = 0 THEN lookups + 1 ELSE lookups
          /\ IF result.kind = "retry"
             THEN /\ retryCount' = retryCount + 1
                  /\ UNCHANGED <<pc, idx, memRules, updated, skipped, stopped,
                                 requestsThisRun, failed, lastResponse>>
             ELSE /\ retryCount' = 0
                  /\ requestsThisRun' = requestsThisRun + 1
                  /\ LookupReturned(resp, pr)
                  /\ IF result.kind = "rateLimited"
                     THEN /\ stopped' = TRUE
                          /\ pc' = "finalRules"
                          /\ UNCHANGED <<idx, memRules, updated, skipped>>
                     ELSE /\ PS_ApplyResult(result, pr)
                          /\ idx' = idx + 1
                          /\ pc' = IF (requestsThisRun + 1) % PS_SAVE_INTERVAL = 0
                                   THEN "ckptRules"
                                   ELSE IF idx + 1 > Len(batch) THEN "finalRules"
                                   ELSE "loop"
                          /\ stopped' = stopped
    /\ UNCHANGED <<progress, completedSet, pIdx, dIdx, cuVars, prevRun,
                   readerSaw, now, runs, diskVars, script, memLifecycle, queue,
                   batch, startRules>>

PS_Fetch(resp) == PS_FetchBody(resp) /\ UNCHANGED netVars

(***************************************************************************)
(* import-free-dataset.js, Pro cursor refresh: checkVisaRequirement (one   *)
(* attempt), the loops' control, and main.                                 *)
(***************************************************************************)
PC_checkVisaRequirement(resp, retries, t) ==
    IF resp.status = 0
    THEN IF retries < MAX_RETRIES THEN Result("retry", NoRecord)
         ELSE Result("null", NoRecord)
    ELSE IF resp.status = 429
    THEN IF retries < MAX_RETRIES THEN Result("retry", NoRecord)
         ELSE Result("rateLimited", NoRecord)
    ELSE IF ~ResponseOk(resp) THEN Result("null", NoRecord)
    ELSE Result("record",
                Rec(normalizeRequirement(resp.requirement), t, "rapidapi-pro"))

\* Lines 404-407: the calendar month, taken as 30 days.
getCurrentMonth(t) == t \div (30 * MS_PER_DAY)

\* A cursor that keeps the passport and forgets the destination.
PC_At_NoDestination(lookup, p, d, prog) ==
    [lookup |-> lookup, pIdx |-> p, dIdx |-> d,
     progress |-> [prog EXCEPT !.destinationIndex = 0]]

\* Where the loops stand: at a lookup (lines 461), or past the outer loop.
PC_At(lookup, p, d, prog) ==
    [lookup |-> lookup, pIdx |-> p, dIdx |-> d, progress |-> prog]

\* Lines 441-500 between two lookups, with rateLimited false: PC_Outer is the
\* head of the outer loop with pIdx = p, PC_Inner the head of the inner loop
\* with dIdx = d; n is requestsThisRun.
RECURSIVE PC_Outer(_, _, _)
RECURSIVE PC_Inner(_, _, _, _)
PC_Outer(p, prog, n) ==
    IF p >= Len(PC_PRIORITY_PASSPORTS) \/ n >= PC_REQUESTS_PER_RUN
    THEN PC_At(FALSE, p, 0, prog)
    ELSE PC_Inner(p, IF p = prog.passportIndex THEN prog.destinationIndex ELSE 0,
                  prog, n)

PC_Inner(p, d, prog, n) ==
    IF d >= Len(ALL_COUNTRIES) \/ n >= PC_REQUESTS_PER_RUN
    THEN PC_Outer(p + 1,
                  IF n < PC_REQUESTS_PER_RUN
                  THEN [prog EXCEPT !.passportIndex = p + 1,
                                    !.destinationIndex = 0]
                  ELSE prog,
                  n)
    ELSE IF PC_PRIORITY_PASSPORTS[p + 1] = ALL_COUNTRIES[d + 1]
    THEN PC_Inner(p, d + 1, prog, n)
    ELSE PC_At(TRUE, p, d, prog)

\* Lines 416-438 and the loops up to the first lookup.
PC_Start ==
    /\ script = "idle"
    /\ runs < MaxRuns
    /\ runs' = runs + 1
    /\ script' = "pc"
    /\ LET loaded == diskProProgress
           reset == IF loaded.lastRefreshMonth # getCurrentMonth(now)
                    THEN [lastRefreshMonth |-> getCurrentMonth(now),
                          passportIndex |-> 0, destinationIndex |-> 0,
                          totalRequestsThisMonth |-> 0]
                    ELSE loaded
           at == PC_Outer(reset.passportIndex, reset, 0)
       IN /\ progress' = at.progress
          /\ pIdx' = at.pIdx
          /\ dIdx' = at.dIdx
          /\ pc' = IF at.lookup THEN "loop" ELSE "finalProgress"
    /\ memRules' = diskRules
    /\ memLifecycle' = EmptyLifecycle
    /\ startRules' = diskRules
    /\ queue' = <<>>
    /\ batch' = <<>>
    /\ idx' = 0
    /\ retryCount' = 0
    /\ requestsThisRun' = 0
    /\ updated' = 0
    /\ skipped' = 0
    /\ stopped' = FALSE
    /\ lookups' = 0
    /\ failed' = {}
    /\ lastResponse' = NoResponse
    /\ UNCHANGED <<now, diskVars, completedSet, cuVars, histVars>>

\* Lines 471-478: what the loops do with a result that is no stop signal.
PC_ApplyResult(result, pr) ==
    IF result.kind = "record"
    THEN /\ memRules' = [memRules EXCEPT ![pr] = result.record]
         /\ updated' = updated + 1
         /\ skipped' = skipped
    ELSE /\ skipped' = skipped + 1
         /\ UNCHANGED <<memRules, updated>>

\* Lines 461-500: one HTTP exchange of the lookup of the pair at (pIdx, dIdx),
\* and, when the lookup returns, the loops up to the next lookup, the periodic
\* save or the final save.
PC_Fetch(resp) ==
    /\ script = "pc"
    /\ pc = "loop"
    /\ LET pr == <<PC_PRIORITY_PASSPORTS[pIdx + 1], ALL_COUNTRIES[dIdx + 1]>>
           result == PC_checkVisaRequirement(resp, retryCount, now)
           n == requestsThisRun + 1
           counted == [progress EXCEPT !.totalRequestsThisMonth = @ + 1]
           moved == [counted EXCEPT !.passportIndex = pIdx,
                                    !.destinationIndex = dIdx + 1]
           at == PC_Inner(pIdx, dIdx + 1, moved, n)
       IN /\ lookups' = IF retryCount = 0 THEN lookups + 1 ELSE lookups
          /\ IF result.kind = "retry"
             THEN /\ retryCount' = retryCount + 1
                  /\ UNCHANGED <<pc, pIdx, dIdx, progress, memRules, updated,
                                 skipped, stopped, requestsThisRun, failed,
                                 lastResponse>>
             ELSE /\ retryCount' = 0
                  /\ requestsThisRun' = n
                  /\ LookupReturned(resp, pr)
                  /\ IF result.kind = "rateLimited"
                     THEN /\ stopped' = TRUE
                          /\ progress' = counted
                          /\ pc' = "finalProgress"
                          /\ UNCHANGED <<pIdx, dIdx, memRules, updated, skipped>>
                     ELSE /\ PC_ApplyResult(result, pr)
                          /\ stopped' = stopped
                          /\ IF n % PC_SAVE_INTERVAL = 0
                             THEN /\ progress' = moved
                                  /\ pc' = "ckptProgress"
                                  /\ UNCHANGED <<pIdx, dIdx>>
                             ELSE /\ progress' = at.progress
                                  /\ pIdx' = at.pIdx
                                  /\ dIdx' = at.dIdx
                                  /\ pc' = IF at.lookup THEN "loop"
                                           ELSE "finalProgress"
    /\ UNCHANGED <<now, runs, diskVars, script, memLifecycle, queue, batch, idx,
                   startRules, completedSet, cuVars, histVars>>

(***************************************************************************)
(* part_000, full load: generateAllPairs, checkVisaRequirement (one        *)
(* attempt) and main.  The git commits of the loop are not modelled.       *)
(***************************************************************************)
generateAllPairs_WithSelf ==
    LET NotPriority(c) == ~Includes(FL_PRIORITY_PASSPORTS, c)
        remainingPassports == SelectSeq(ALL_COUNTRIES, NotPriority)
    IN NestedLoop(FL_PRIORITY_PASSPORTS, ALL_COUNTRIES)
       \o NestedLoop(remainingPassports, ALL_COUNTRIES)

generateAllPairs ==
    LET NotPriority(c) == ~Includes(FL_PRIORITY_PASSPORTS, c)
        remainingPassports == SelectSeq(ALL_COUNTRIES, NotPriority)
        NotSelf(pr) == pr[1] # pr[2]
    IN SelectSeq(NestedLoop(FL_PRIORITY_PASSPORTS, ALL_COUNTRIES), NotSelf)
       \o SelectSeq(NestedLoop(remainingPassports, ALL_COUNTRIES), NotSelf)

FL_checkVisaRequirement(resp, retries, t) ==
    IF resp.status = 0
    THEN IF retries < MAX_RETRIES THEN Result("retry", NoRecord)
         ELSE Result("null", NoRecord)
    ELSE IF resp.status = 429
    THEN IF retries < MAX_RETRIES THEN Result("retry", NoRecord)
         ELSE Result("rateLimited", NoRecord)
    ELSE IF ~ResponseOk(resp) THEN Result("null", NoRecord)
    ELSE Result("record", Rec(normalizeRequirement(resp.requirement), t, ""))

FL_Start_NoFilter ==
    /\ script = "idle"
    /\ runs < MaxRuns
    /\ runs' = runs + 1
    /\ script' = "fl"
    /\ LET pendingPairs == generateAllPairs
           pairsToProcess == Slice(pendingPairs, FL_REQUESTS_PER_RUN)
       IN /\ queue' = [k \in DOMAIN pendingPairs |-> [pair |-> pendingPairs[k]]]
          /\ batch' = IF Len(pendingPairs) = 0 THEN <<>>
                      ELSE [k \in DOMAIN pairsToProcess |->
                               [pair |-> pairsToProcess[k]]]
          /\ pc' = IF Len(pendingPairs) = 0 THEN "done" ELSE "loop"
    /\ progress' = diskFullProgress
    /\ completedSet' = diskFullProgress.completedPairs
    /\ memRules' = diskRules
    /\ memLifecycle' = EmptyLifecycle
    /\ startRules' = diskRules
    /\ idx' = 1
    /\ retryCount' = 0
    /\ requestsThisRun' = 0
    /\ updated' = 0
    /\ skipped' = 0
    /\ stopped' = FALSE
    /\ lookups' = 0
    /\ failed' = {}
    /\ lastResponse' = NoResponse
    /\ UNCHANGED <<now, diskVars, pIdx, dIdx, cuVars, histVars>>

\* Lines 265-293: load, filter out the completed pairs, take the prefix.
FL_Start ==
    /\ script = "idle"
    /\ runs < MaxRuns
    /\ runs' = runs + 1
    /\ script' = "fl"
    /\ LET Pending(pr) == pr \notin diskFullProgress.completedPairs
           pendingPairs == SelectSeq(generateAllPairs, Pending)
           pairsToProcess == Slice(pendingPairs, FL_REQUESTS_PER_RUN)
       IN /\ queue' = [k \in DOMAIN pendingPairs |-> [pair |-> pendingPairs[k]]]
          /\ batch' = IF Len(pendingPairs) = 0 THEN <<>>
                      ELSE [k \in DOMAIN pairsToProcess |->
                               [pair |-> pairsToProcess[k]]]
          /\ pc' = IF Len(pendingPairs) = 0 THEN "done" ELSE "loop"
    /\ progress' = diskFullProgress
    /\ completedSet' = diskFullProgress.completedPairs
    /\ memRules' = diskRules
    /\ memLifecycle' = EmptyLifecycle
    /\ startRules' = diskRules
    /\ idx' = 1
    /\ retryCount' = 0
    /\ requestsThisRun' = 0
    /\ updated' = 0
    /\ skipped' = 0
    /\ stopped' = FALSE
    /\ lookups' = 0
    /\ failed' = {}
    /\ lastResponse' = NoResponse
    /\ UNCHANGED <<now, diskVars, pIdx, dIdx, cuVars, histVars>>

\* Lines 315-324: what the loop does with a result that is no stop signal.
FL_ApplyResult(result, pr) ==
    IF result.kind = "record"
    THEN /\ memRules' = [memRules EXCEPT ![pr] = result.record]
         /\ updated' = updated + 1
         /\ skipped' = skipped
    ELSE /\ skipped' = skipped + 1
         /\ UNCHANGED <<memRules, updated>>

\* Lines 295-346: one HTTP exchange of the lookup of batch[idx], and, when the
\* lookup returns, the rest of the loop body up to the periodic save.
FL_Fetch(resp) ==
    /\ script = "fl"
    /\ pc = "loop"
    /\ LET pr == batch[idx].pair
           result == FL_checkVisaRequirement(resp, retryCount, now)
       IN /\ lookups' = IF retryCount = 0 THEN lookups + 1 ELSE lookups
          /\ IF result.kind = "retry"
             THEN /\ retryCount' = retryCount + 1
                  /\ UNCHANGED <<pc, idx, memRules, updated, skipped, stopped,
                                 requestsThisRun, failed, lastResponse,
                                 completedSet>>
             ELSE /\ retryCount' = 0
                  /\ requestsThisRun' = requestsThisRun + 1
                  /\ LookupReturned(resp, pr)
                  /\ IF result.kind = "rateLimited"
                     THEN /\ stopped' = TRUE
                          /\ pc' = "finalProgress"
                          /\ UNCHANGED <<idx, memRules, updated, skipped,
                                         completedSet>>
                     ELSE /\ FL_ApplyResult(result, pr)
                          /\ completedSet' = completedSet \cup {pr}
                          /\ idx' = idx + 1
                          /\ pc' = IF (requestsThisRun + 1) % FL_SAVE_INTERVAL = 0
                                   THEN "ckptProgress"
                                   ELSE IF idx + 1 > Len(batch)
                                   THEN "finalProgress"
                                   ELSE "loop"
                          /\ stopped' = stopped
    /\ UNCHANGED <<now, runs, diskVars, script, memLifecycle, queue, batch,
                   startRules, progress, pIdx, dIdx, cuVars, histVars>>

(***************************************************************************)
(* update-visa-data.js, the conservative updater: checkVisaRequirement,    *)
(* the loops' control, and main.                                           *)
(***************************************************************************)
\* Lines 51-86: no retry; the stored record has no lastChecked and no source.
CU_checkVisaRequirement(resp) ==
    IF resp.status = 0 THEN Result("null", NoRecord)
    ELSE IF resp.status = 429 THEN Result("rateLimited", NoRecord)
    ELSE IF ~ResponseOk(resp) THEN Result("null", NoRecord)
    ELSE Result("record", Rec(normalizeRequirement(resp.requirement), None, ""))

\* slice(from, to) of a list, indices from 0.
SliceFrom(s, from, to) ==
    SubSeq(s, from + 1, IF Len(s) < to THEN Len(s) ELSE to)

\* Lines 170-178: the passports of a run that starts at startIndex.
CU_PassportsToProcess(start) ==
    SliceFrom(ALL_PASSPORTS, start, start + PASSPORTS_PER_RUN)

\* Line 196: DESTINATION_COUNTRIES.filter(d => d !== passport).
CU_Destinations(passport) ==
    LET Other(d) == d # passport IN SelectSeq(DESTINATION_COUNTRIES, Other)

\* Lines 187-229 between two lookups, with rateLimited false: from the head of
\* the inner loop at destination d of passport p, up to the next lookup or
\* past the outer loop.
RECURSIVE CU_Loop(_, _, _, _)
CU_Loop(passports, p, d, rules) ==
    IF p >= Len(passports)
    THEN [lookup |-> FALSE, pIdx |-> p, dIdx |-> 0]
    ELSE IF d >= Len(CU_Destinations(passports[p + 1]))
    THEN CU_Loop(passports, p + 1, 0, rules)
    ELSE IF rules[<<passports[p + 1], CU_Destinations(passports[p + 1])[d + 1]>>].exists
    THEN CU_Loop(passports, p, d + 1, rules)
    ELSE [lookup |-> TRUE, pIdx |-> p, dIdx |-> d]

\* Lines 167-200: load, choose the passports, the loops up to the first lookup.
CU_Start ==
    /\ script = "idle"
    /\ runs < MaxRuns
    /\ runs' = runs + 1
    /\ script' = "cu"
    /\ LET start == diskProgress % Len(ALL_PASSPORTS)
           sliced == CU_PassportsToProcess(start)
           wrapped == Len(sliced) = 0
           passports == IF wrapped THEN CU_PassportsToProcess(0) ELSE sliced
           at == CU_Loop(passports, 0, 0, diskRules)
       IN /\ startIndex' = IF wrapped THEN 0 ELSE start
          /\ passportsToProcess' = passports
          /\ pIdx' = at.pIdx
          /\ dIdx' = at.dIdx
          /\ pc' = IF at.lookup THEN "loop" ELSE "finalProgress"
    /\ memRules' = diskRules
    /\ memLifecycle' = EmptyLifecycle
    /\ startRules' = diskRules
    /\ queue' = <<>>
    /\ batch' = <<>>
    /\ idx' = 0
    /\ retryCount' = 0
    /\ requestsThisRun' = 0
    /\ updated' = 0
    /\ skipped' = 0
    /\ stopped' = FALSE
    /\ lookups' = 0
    /\ failed' = {}
    /\ lastResponse' = NoResponse
    /\ UNCHANGED <<now, diskVars, progress, completedSet, histVars>>

\* Lines 208-229: one lookup of the pair at (pIdx, dIdx), and the loops up to
\* the next lookup or the final save.
CU_Fetch(resp) ==
    /\ script = "cu"
    /\ pc = "loop"
    /\ LET passport == passportsToProcess[pIdx + 1]
           pr == <<passport, CU_Destinations(passport)[dIdx + 1]>>
           result == CU_checkVisaRequirement(resp)
           written == [memRules EXCEPT ![pr] = result.record]
           rules == IF result.kind = "record" THEN written ELSE memRules
           at == CU_Loop(passportsToProcess, pIdx, dIdx + 1, rules)
       IN /\ lookups' = lookups + 1
          /\ LookupReturned(resp, pr)
          /\ IF result.kind = "rateLimited"
             THEN /\ stopped' = TRUE
                  /\ pc' = "finalProgress"
                  /\ UNCHANGED <<pIdx, dIdx, memRules, updated, skipped>>
             ELSE /\ memRules' = rules
                  /\ updated' = IF result.kind = "record" THEN updated + 1
                                ELSE updated
                  /\ skipped' = IF result.kind = "record" THEN skipped
                                ELSE skipped + 1
                  /\ stopped' = stopped
                  /\ pIdx' = at.pIdx
                  /\ dIdx' = at.dIdx
                  /\ pc' = IF at.lookup THEN "loop" ELSE "finalProgress"
    /\ UNCHANGED <<now, runs, diskVars, script, memLifecycle, queue, batch, idx,
                   retryCount, requestsThisRun, startRules, progress,
                   completedSet, cuVars, histVars>>

CU_NextIndex_NoWrap ==
    IF stopped THEN startIndex ELSE startIndex + PASSPORTS_PER_RUN

\* A cursor that is saved as it was loaded.
CU_NextIndex_Stays == startIndex

\* Lines 237-240.
CU_NextIndex ==
    IF stopped THEN startIndex
    ELSE (startIndex + PASSPORTS_PER_RUN) % Len(ALL_PASSPORTS)

(***************************************************************************)
(* saveProgress and saveData of Pro smart refresh, Pro cursor refresh and  *)
(* full load, one action per file written.  pc is "ckpt..." in a periodic  *)
(* save and "final..." in the final one.                                   *)
(***************************************************************************)
\* part_000:331-335 and 349-350: full load fills its progress object just
\* before it saves it.
FL_Progress ==
    [completedPairs |-> completedSet,
     totalRequests |-> progress.totalRequests
                       + (IF pc = "ckptProgress" THEN FL_SAVE_INTERVAL
                          ELSE requestsThisRun % FL_SAVE_INTERVAL)]

\* import-free-dataset.js:385-388 and part_000:212-215.
SaveProgress ==
    /\ script \in {"pc", "fl", "cu"}
    /\ pc \in {"ckptProgress", "finalProgress"}
    /\ CASE script = "pc" ->
              /\ diskProProgress' = progress
              /\ UNCHANGED <<diskFullProgress, diskProgress, progress>>
         [] script = "fl" ->
              /\ progress' = FL_Progress
              /\ diskFullProgress' = FL_Progress
              /\ UNCHANGED <<diskProProgress, diskProgress>>
         [] script = "cu" ->
              /\ diskProgress' = CU_NextIndex
              /\ UNCHANGED <<diskProProgress, diskFullProgress, progress>>
    /\ pc' = IF pc = "ckptProgress" THEN "ckptRules" ELSE "finalRules"
    /\ UNCHANGED <<now, runs, diskRules, diskDataVersion, versionFile,
                   diskLifecycle, fileState, script, loopVars, completedSet,
                   pIdx, dIdx, cuVars, histVars>>

\* A save that writes the dataVersion of the seed import instead of the clock.
SaveDataRules_SeedVersion ==
    /\ script \in {"ps", "pc", "fl", "cu"}
    /\ pc \in {"ckptRules", "finalRules"}
    /\ diskRules' = memRules
    /\ diskDataVersion' = 0
    /\ pc' = IF pc = "ckptRules" THEN "ckptVersion" ELSE "finalVersion"
    /\ UNCHANGED <<progressFiles, now, runs, versionFile, diskLifecycle, script,
                   memVars>>

\* saveData's first write (import-free-dataset.js:651-654 and 391-394,
\* part_000:218-221, update-visa-data.js:147-153): visa-rules.json.
SaveDataRules ==
    /\ script \in {"ps", "pc", "fl", "cu", "im", "rb"}
    /\ pc \in {"ckptRules", "finalRules"}
    /\ diskRules' = memRules
    /\ diskDataVersion' = now
    /\ pc' = IF pc = "ckptRules" THEN "ckptVersion" ELSE "finalVersion"
    /\ UNCHANGED <<progressFiles, now, runs, versionFile, diskLifecycle, script,
                   memVars>>

\* Where main goes on after a periodic save: the loops up to the next lookup or
\* the final save.
AfterCheckpoint ==
    IF script = "pc"
    THEN LET at == PC_Inner(pIdx, dIdx + 1, progress, requestsThisRun)
         IN [pc |-> IF at.lookup THEN "loop" ELSE "finalProgress",
             pIdx |-> at.pIdx, dIdx |-> at.dIdx, progress |-> at.progress]
    ELSE [pc |-> IF idx <= Len(batch) THEN "loop"
                 ELSE IF script = "ps" THEN "finalRules"
                 ELSE "finalProgress",
          pIdx |-> pIdx, dIdx |-> dIdx, progress |-> progress]

\* saveData's second write: version.json.
SaveDataVersion ==
    /\ script \in {"ps", "pc", "fl", "cu", "im", "rb"}
    /\ pc \in {"ckptVersion", "finalVersion"}
    /\ versionFile' = now
    /\ IF pc = "ckptVersion"
       THEN /\ pc' = AfterCheckpoint.pc
            /\ pIdx' = AfterCheckpoint.pIdx
            /\ dIdx' = AfterCheckpoint.dIdx
            /\ progress' = AfterCheckpoint.progress
       ELSE /\ pc' = "done"
            /\ UNCHANGED <<pIdx, dIdx, progress>>
    /\ UNCHANGED <<progressFiles, now, runs, diskRules, diskDataVersion,
                   diskLifecycle, script, loopVars, completedSet, cuVars, histVars>>

(***************************************************************************)
(* The init-lifecycle script (import-free-dataset.js:163-191): it reads    *)
(* the Ruleset and writes a new lifecycle file in one write.               *)
(***************************************************************************)
initLifecycle_MarksUnknown(rules, t) ==
    [pr \in PairKeys |-> IF rules[pr].exists THEN t ELSE None]

initLifecycle(rules, t) ==
    [pr \in PairKeys |->
        IF /\ rules[pr].exists
           /\ rules[pr].requirement # ""
           /\ rules[pr].requirement # "unknown"
        THEN t ELSE None]

InitLifecycleRun ==
    /\ script = "idle"
    /\ runs < MaxRuns
    /\ runs' = runs + 1
    /\ diskLifecycle' = initLifecycle(diskRules, now)
    /\ UNCHANGED <<progressFiles, now, diskRules, diskDataVersion, versionFile, script, pc, memVars>>

(***************************************************************************)
(* The environment: the run ends, the process is killed, time passes.      *)
(***************************************************************************)
Finish ==
    /\ script # "idle"
    /\ pc = "done"
    /\ script' = "idle"
    /\ pc' = "idle"
    /\ NoMemory
    /\ UNCHANGED <<now, runs, diskVars, histVars>>

\* Finish of a smart-update run, keeping for the history its queue and the
\* pairs it updated: the batch items before idx whose lookup did not fail.
SU_End ==
    /\ script = "su"
    /\ pc = "done"
    /\ script' = "idle"
    /\ pc' = "idle"
    /\ prevRun' = [ended |-> TRUE, endedAt |-> now, queue |-> queue,
                   stopped |-> stopped,
                   updatedPairs |->
                       {batch[i].pair : i \in 1..(idx - 1)} \ failed]
    /\ NoMemory
    /\ UNCHANGED <<now, runs, diskVars, readerSaw, netVars>>

Kill ==
    /\ script # "idle"
    /\ pc # "done"
    /\ script' = "idle"
    /\ pc' = "idle"
    /\ NoMemory
    /\ UNCHANGED <<now, runs, diskVars, histVars>>

Tick(d) ==
    /\ script = "idle"
    /\ now + d <= MaxNow
    /\ now' = now + d
    /\ UNCHANGED <<runs, diskVars, script, pc, memVars>>

(***************************************************************************)
(* Initial states: a Ruleset as the seed import and earlier API runs leave *)
(* it, no lifecycle file, no script running.                               *)
(***************************************************************************)
InitRecords ==
    {NoRecord, Rec("unknown", None, ""), Rec("visa-free", None, "passport-index")}

InitRulesets ==
    {r \in [PairKeys -> InitRecords] :
        /\ \A c \in Countries : r[<<c, c>>] = NoRecord
        /\ r[<<"GB", "FR">>] # Rec("unknown", None, "")
        /\ r[<<"NG", "GB">>] = Rec("visa-free", None, "passport-index")
        /\ r[<<"NG", "FR">>] = NoRecord
        /\ r[<<"FR", "GB">>] = Rec("unknown", None, "")
        /\ r[<<"FR", "NG">>] = Rec("visa-free", None, "passport-index")}

InitMemory ==
    /\ runs = 0
    /\ diskDataVersion = 0
    /\ versionFile = 0
    /\ script = "idle"
    /\ pc = "idle"
    /\ memRules = EmptyRules
    /\ memLifecycle = EmptyLifecycle
    /\ queue = <<>>
    /\ batch = <<>>
    /\ idx = 0
    /\ retryCount = 0
    /\ requestsThisRun = 0
    /\ updated = 0
    /\ skipped = 0
    /\ stopped = FALSE
    /\ lookups = 0
    /\ startRules = EmptyRules
    /\ failed = {}
    /\ lastResponse = NoResponse
    /\ progress = NoProgress
    /\ completedSet = {}
    /\ pIdx = 0
    /\ dIdx = 0
    /\ startIndex = 0
    /\ passportsToProcess = <<>>
    /\ prevRun = NoPrevRun
    /\ readerSaw = NoRead
    /\ httpRequests = 0
    /\ waited = 0
    /\ normalizerResult = NoCall

\* The lookup API is left free to answer anything at every attempt.
InitIdle ==
    /\ InitMemory
    /\ apiFails = {}

(***************************************************************************)
(* SpecSU: runs of smart-update and of the init-lifecycle script.          *)
(***************************************************************************)
\* No progress file: loadProgress gives the defaults.
NoProgressFiles ==
    /\ diskProProgress = DefaultProProgress
    /\ diskFullProgress = DefaultFullProgress
    /\ diskProgress = 0

InitSU ==
    /\ InitIdle
    /\ FilesOk
    /\ NoProgressFiles
    /\ now = 0
    /\ diskRules \in InitRulesets
    /\ diskLifecycle = EmptyLifecycle

NextSU ==
    \/ SU_Start
    \/ \E resp \in HttpResponses : SU_Fetch(resp)
    \/ SU_Save
    \/ SU_SaveVersion
    \/ SU_SaveLifecycle
    \/ InitLifecycleRun
    \/ Finish
    \/ Kill
    \/ \E d \in TickSteps : Tick(d)

SpecSU == InitSU /\ [][NextSU]_vars

(***************************************************************************)
(* SpecPlanSU: getPairsToUpdate, as main calls it, on every Ruleset and    *)
(* Lifecycle State over the pairs it reads.                                *)
(***************************************************************************)
\* The pairs smart-update works on.
SU_Pairs ==
    {pr \in Range(NestedLoop(SU_PRIORITY_PASSPORTS, ALL_DESTINATIONS)) : pr[1] # pr[2]}

\* Ages of the timestamps of the planners' inputs, in half days: 29.5, 30, 59.5
\* and 60 days.
PlanAges == {59, 60, 119, 120}

InitPlanSU ==
    /\ InitIdle
    /\ FilesOk
    /\ NoProgressFiles
    /\ now = MaxNow
    /\ diskRules \in
         {[pr \in PairKeys |-> IF pr \in SU_Pairs THEN f[pr] ELSE NoRecord] :
             f \in [SU_Pairs -> InitRecords]}
    /\ diskLifecycle \in
         {[pr \in PairKeys |-> IF pr \in SU_Pairs THEN f[pr] ELSE None] :
             f \in [SU_Pairs -> {None} \cup {MaxNow - a : a \in PlanAges}]}

NextPlanSU == SU_Start

SpecPlanSU == InitPlanSU /\ [][NextPlanSU]_vars

(***************************************************************************)
(* Claims about smart-update.                                              *)
(***************************************************************************)
\* C1: in a smart-update run, a pair whose stored record was not 'unknown' when
\* the run loaded the Ruleset, and whose lookup failed or gave a response that
\* normalizes to 'unknown', keeps its record: in memory and in the persisted
\* Ruleset it is the record the run loaded.
C1_NoRegression ==
    script = "su" =>
        \A pr \in failed :
            Good(startRules[pr]) =>
                memRules[pr] = startRules[pr] /\ diskRules[pr] = startRules[pr]

\* C1's case: a run that saved an update has ended, and a pair with a good
\* record had a lookup whose response normalizes to 'unknown'.
C1_Witness ==
    /\ script = "su"
    /\ pc = "done"
    /\ updated > 0
    /\ lastResponse.status = 200
    /\ normalizeRequirement(lastResponse.requirement) = "unknown"
    /\ \E pr \in failed : Good(startRules[pr])

\* C3: every pair with a timestamp in the persisted Lifecycle State has a
\* record in the persisted Ruleset whose requirement is not 'unknown', at every
\* point of every sequence of init-lifecycle and smart-update runs, runs killed
\* between two file writes included.
C3_TimestampImpliesGoodRecord ==
    \A pr \in PairKeys : diskLifecycle[pr] # None => Good(diskRules[pr])

\* C3's case: no script runs, a lifecycle file with a timestamp exists, and a
\* record written by smart-update has no timestamp: the run that wrote it was
\* killed between the write of the Ruleset and the write of the lifecycle.
C3_Witness ==
    /\ script = "idle"
    /\ \E pr \in PairKeys : diskLifecycle[pr] # None
    /\ \E pr \in PairKeys :
          /\ Good(diskRules[pr])
          /\ diskRules[pr].source = ""
          /\ diskLifecycle[pr] = None

\* C4: when a lookup of smart-update fails or yields 'unknown' (and is no stop
\* signal), the step leaves the Lifecycle State as it was, in memory and on
\* disk, and increments skipped, not updated.
C4_SkipLeavesLifecycle ==
    [][(/\ script = "su"
        /\ pc = "loop"
        /\ idx' = idx + 1
        /\ LookupFailsOrUnknown(lastResponse'))
       => (/\ memLifecycle' = memLifecycle
           /\ diskLifecycle' = diskLifecycle
           /\ skipped' = skipped + 1
           /\ updated' = updated)]_vars

\* C4's case: a run has skipped a pair that has no timestamp after a lookup
\* that failed, and has updated another.
C4_Witness ==
    /\ script = "su"
    /\ skipped > 0
    /\ updated > 0
    /\ LookupFailsOrUnknown(lastResponse)
    /\ \E pr \in failed : memLifecycle[pr] = None

\* Why getPairsToUpdate selects a pair: 0 missing or 'unknown', 1 a good record
\* without timestamp, 2 a good record with a timestamp.
SU_Class(pr) ==
    IF ~Good(diskRules[pr]) THEN 0
    ELSE IF diskLifecycle[pr] = None THEN 1
    ELSE 2

Positions(pr) == {i \in DOMAIN queue : queue[i].pair = pr}

\* C7: in the queue of getPairsToUpdate, among the pairs with a good record and
\* a timestamp older than the skip threshold, a pair with an older timestamp
\* comes before a pair with a newer one.
C7_OldestFirst ==
    script = "su" =>
        \A i, j \in DOMAIN queue :
            (/\ SU_Class(queue[i].pair) = 2
             /\ SU_Class(queue[j].pair) = 2
             /\ diskLifecycle[queue[i].pair] < diskLifecycle[queue[j].pair])
            => i < j

\* C8: the queue of getPairsToUpdate holds exactly the pairs of the priority
\* passports that are not fresh, each once: the pairs with no record, an
\* 'unknown' record, no timestamp, or a timestamp at least
\* SKIP_IF_UPDATED_WITHIN_DAYS old.
C8_ExactlyNonFresh ==
    script = "su" =>
        /\ \A i \in DOMAIN queue : queue[i].pair \in SU_Pairs
        /\ \A pr \in SU_Pairs :
              Cardinality(Positions(pr)) =
                 IF \/ ~diskRules[pr].exists
                    \/ diskRules[pr].requirement = "unknown"
                    \/ diskLifecycle[pr] = None
                    \/ now - diskLifecycle[pr] >= SKIP_IF_UPDATED_WITHIN_DAYS * MS_PER_DAY
                 THEN 1 ELSE 0

\* C8's case: a pair updated 29.5 days ago is left out and a pair updated 30
\* days ago is in the queue.
C8_Witness ==
    /\ script = "su"
    /\ \E pr \in SU_Pairs :
          /\ Good(diskRules[pr])
          /\ now - diskLifecycle[pr] = 59
          /\ Positions(pr) = {}
    /\ \E pr \in SU_Pairs :
          /\ Good(diskRules[pr])
          /\ now - diskLifecycle[pr] = 60
          /\ Positions(pr) # {}

\* C9: in the queue of getPairsToUpdate every missing or 'unknown' pair comes
\* before every pair with a good record and no timestamp, and every such pair
\* comes before every pair selected for its age.
C9_ClassOrder ==
    script = "su" =>
        \A i, j \in DOMAIN queue :
            SU_Class(queue[i].pair) < SU_Class(queue[j].pair) => i < j

\* C9's case: the queue holds a pair of each class, and the loop met the pair
\* selected for its age first.
C9_Witness ==
    /\ script = "su"
    /\ SU_Class(<<"GB", "NG">>) = 2
    /\ SU_Class(<<"GB", "FR">>) = 1
    /\ SU_Class(<<"NG", "GB">>) = 0
    /\ Positions(<<"GB", "NG">>) # {}

(***************************************************************************)
(* SpecPS: runs of Pro smart refresh.                                      *)
(***************************************************************************)
NextPS ==
    \/ PS_Start
    \/ \E resp \in HttpResponses : PS_Fetch(resp)
    \/ SaveDataRules
    \/ SaveDataVersion
    \/ Finish
    \/ Kill
    \/ \E d \in TickSteps : Tick(d)

SpecPS == InitSU /\ [][NextPS]_vars

(***************************************************************************)
(* SpecPlanPS: generateRefreshQueue, as main calls it, on every Ruleset    *)
(* over records with and without lastChecked.                              *)
(***************************************************************************)
PS_Pairs == {pr \in PairKeys : pr[1] # pr[2]}

PlanRecords ==
    {NoRecord, Rec("visa-free", None, "passport-index")}
    \cup {Rec("visa-free", MaxNow - a, "rapidapi-pro") : a \in PlanAges}

InitPlanPS ==
    /\ InitIdle
    /\ FilesOk
    /\ NoProgressFiles
    /\ now = MaxNow
    /\ diskRules \in
         {[pr \in PairKeys |-> IF pr \in PS_Pairs THEN f[pr] ELSE NoRecord] :
             f \in [PS_Pairs -> PlanRecords]}
    /\ diskLifecycle = EmptyLifecycle

NextPlanPS == PS_Start

SpecPlanPS == InitPlanPS /\ [][NextPlanPS]_vars

(***************************************************************************)
(* Claims about Pro smart refresh.                                         *)
(***************************************************************************)
\* C2: in a Pro smart refresh run, a pair whose stored record was not 'unknown'
\* when the run loaded the Ruleset, and whose lookup failed or gave a response
\* that normalizes to 'unknown', keeps the record the run loaded, in memory and
\* in the persisted Ruleset.
C2_ProNoRegression ==
    script = "ps" =>
        \A pr \in failed :
            Good(startRules[pr]) =>
                memRules[pr] = startRules[pr] /\ diskRules[pr] = startRules[pr]

CategoryRank(category) ==
    CASE category = "missing" -> 0
      [] category = "critical" -> 1
      [] category = "stale" -> 2

C10_UnknownAlwaysQueued ==
    script = "ps" =>
        \A pr \in PS_Pairs :
            (startRules[pr].exists /\ startRules[pr].requirement = "unknown")
            => \E i \in DOMAIN queue :
                  queue[i].pair = pr /\ queue[i].category = "missing"

(***************************************************************************)
(* SpecRuns: one run of any of the four updaters, to its end, on the files *)
(* the seed import leaves and on files that earlier runs have left.        *)
(***************************************************************************)
\* The Ruleset after Pro runs have looked up its known records at time t.
Refreshed(rules, t) ==
    [pr \in PairKeys |->
        IF Good(rules[pr]) THEN Rec(rules[pr].requirement, t, "rapidapi-pro")
        ELSE rules[pr]]

\* pro-refresh-progress.json of a run that stopped after GB->NG.
StartedProProgress ==
    [lastRefreshMonth |-> 0, passportIndex |-> 0, destinationIndex |-> 2,
     totalRequestsThisMonth |-> 1]

\* full-load-progress.json of a run that stopped after NG->GB, and of the run
\* that completed the last pair.
StartedFullProgress ==
    [completedPairs |-> {<<"NG", "GB">>}, totalRequests |-> 1]

CompleteFullProgress ==
    [completedPairs |-> PairKeys \ {<<c, c>> : c \in Countries},
     totalRequests |-> 6]

InitRuns ==
    /\ InitIdle
    /\ FilesOk
    /\ now = 0
    /\ \E rules \in InitRulesets :
          /\ diskRules \in {rules, Refreshed(rules, 0)}
          /\ diskLifecycle \in {EmptyLifecycle, initLifecycle(rules, 0)}
    /\ diskProProgress \in {DefaultProProgress, StartedProProgress}
    /\ diskFullProgress \in
          {DefaultFullProgress, StartedFullProgress, CompleteFullProgress}
    /\ diskProgress = 0

NextRuns ==
    \/ SU_Start
    \/ \E resp \in HttpResponses : SU_Fetch(resp)
    \/ SU_Save
    \/ SU_SaveVersion
    \/ SU_SaveLifecycle
    \/ PS_Start
    \/ \E resp \in HttpResponses : PS_Fetch(resp)
    \/ PC_Start
    \/ \E resp \in HttpResponses : PC_Fetch(resp)
    \/ FL_Start
    \/ \E resp \in HttpResponses : FL_Fetch(resp)
    \/ SaveProgress
    \/ SaveDataRules
    \/ SaveDataVersion

SpecRuns == InitRuns /\ [][NextRuns]_vars

(***************************************************************************)
(* Claims about every updater.                                             *)
(***************************************************************************)
\* The REQUESTS_PER_RUN of the script that runs.
Budget ==
    CASE script = "su" -> SU_REQUESTS_PER_RUN
      [] script = "ps" -> PS_REQUESTS_PER_RUN
      [] script = "pc" -> PC_REQUESTS_PER_RUN
      [] script = "fl" -> FL_REQUESTS_PER_RUN

\* C5: in every run of smart-update, Pro smart refresh, Pro cursor refresh and
\* full load, the number of pairs for which main has called
\* checkVisaRequirement is at most the script's REQUESTS_PER_RUN.
C5_BudgetBound ==
    script # "idle" => lookups <= Budget

\* C5's case: a run that has planned more pairs than its budget has spent the
\* whole budget and ends.
C5_Witness ==
    /\ script \in {"su", "ps", "fl"}
    /\ Len(queue) > Budget
    /\ lookups = Budget
    /\ pc = "done"

(***************************************************************************)
(* SpecQueues: one run of any of the four updaters or of the conservative  *)
(* updater, to its end.                                                    *)
(***************************************************************************)
NextQueues ==
    \/ NextRuns
    \/ CU_Start
    \/ \E resp \in HttpResponses : CU_Fetch(resp)

SpecQueues == InitRuns /\ [][NextQueues]_vars

\* The pair whose lookup is due when pc = "loop".
CurrentPair ==
    CASE script \in {"su", "ps", "fl"} -> batch[idx].pair
      [] script = "pc" ->
            <<PC_PRIORITY_PASSPORTS[pIdx + 1], ALL_COUNTRIES[dIdx + 1]>>
      [] script = "cu" ->
            <<passportsToProcess[pIdx + 1],
              CU_Destinations(passportsToProcess[pIdx + 1])[dIdx + 1]>>

\* C11: no queue and no batch of any run holds a pair (X, X), the pair a run
\* is about to look up is never a pair (X, X), and there is no record at
\* rules[X][X], in memory or on disk.
C11_NoSelfPair ==
    /\ \A i \in DOMAIN queue : queue[i].pair[1] # queue[i].pair[2]
    /\ \A i \in DOMAIN batch : batch[i].pair[1] # batch[i].pair[2]
    /\ pc = "loop" => CurrentPair[1] # CurrentPair[2]
    /\ \A c \in Countries :
          ~memRules[<<c, c>>].exists /\ ~diskRules[<<c, c>>].exists

\* C11's case: a full-load run has queued every pair but the pairs (X, X), and
\* has written the records of the first two.
C11_Witness ==
    /\ script = "fl"
    /\ Len(queue) = Cardinality(PairKeys) - Cardinality(Countries)
    /\ pc = "done"
    /\ updated = FL_REQUESTS_PER_RUN
    /\ diskRules[<<"NG", "GB">>].exists
    /\ ~diskRules[<<"NG", "NG">>].exists

(***************************************************************************)
(* Claims about the end of a smart-update run.                             *)
(***************************************************************************)
\* A response that ends a lookup with a stop signal: 429 (after the retries),
\* or a body whose message mentions the quota.
StopSignal(resp) ==
    \/ resp.status = 429
    \/ /\ ResponseOk(resp)
       /\ (includes(resp.message, "exceeded") \/ includes(resp.message, "quota"))

\* C12: in a smart-update run, the step in which a lookup returns a stop signal
\* leaves the Ruleset and the Lifecycle State in memory as they were and leaves
\* the loop; after it the run makes no lookup and changes no record.
C12_StopSignalEndsLoop ==
    [][/\ (/\ script = "su"
           /\ pc = "loop"
           /\ script' = "su"
           /\ retryCount' = 0
           /\ StopSignal(lastResponse'))
          => /\ memRules' = memRules
             /\ memLifecycle' = memLifecycle
             /\ stopped'
             /\ pc' # "loop"
       /\ (script = "su" /\ stopped /\ script' = "su")
          => /\ lookups' = lookups
             /\ memRules' = memRules
             /\ memLifecycle' = memLifecycle
             /\ pc' # "loop"]_vars

\* C12's case: a run ended after a stop signal at the first item of a batch of
\* two.
C12_Witness ==
    /\ script = "su"
    /\ pc = "done"
    /\ stopped
    /\ StopSignal(lastResponse)
    /\ idx = 1
    /\ Len(batch) > 1
    /\ lookups = 1

Unsaved == {pr \in PairKeys : memRules[pr] # diskRules[pr]}

InitFL ==
    /\ InitIdle
    /\ FilesOk
    /\ NoProgressFiles
    /\ now = 0
    /\ diskRules \in {EmptyRules} \cup InitRulesets
    /\ diskLifecycle = EmptyLifecycle

NextFL ==
    \/ FL_Start
    \/ \E resp \in HttpResponses : FL_Fetch(resp)
    \/ SaveProgress
    \/ SaveDataRules
    \/ SaveDataVersion
    \/ Finish
    \/ Kill

SpecFL == InitFL /\ [][NextFL]_vars

\* C15: no pair that full-load-progress.json lists as completed is among the
\* pairs a full-load run has still to look up.
C15_CompletedNeverLookedUpAgain ==
    script = "fl" =>
        \A i \in DOMAIN batch :
            (i >= idx /\ pc = "loop")
            => batch[i].pair \notin diskFullProgress.completedPairs

\* C15's case: a run after a run that was killed past its periodic save is
\* looking up pairs, none of them the pairs the first run completed.
C15_Witness ==
    /\ script = "fl"
    /\ runs = 2
    /\ pc = "loop"
    /\ lookups = 1
    /\ Cardinality(diskFullProgress.completedPairs) = FL_SAVE_INTERVAL
    /\ diskRules[<<"NG", "GB">>] = startRules[<<"NG", "GB">>]

(***************************************************************************)
(* SpecLoadSU: smart-update runs on files that are there or not, readable  *)
(* or not, with their mapping or not.                                      *)
(***************************************************************************)
InitLoadSU ==
    /\ InitIdle
    /\ NoProgressFiles
    /\ now = 0
    /\ fileState \in [rules : RulesFileStates, lifecycle : LifecycleFileStates]
    /\ diskRules \in IF fileState.rules = "ok" THEN InitRulesets
                     ELSE {EmptyRules}
    /\ diskLifecycle = EmptyLifecycle

NextLoadSU ==
    \/ SU_Start
    \/ SU_StartFails
    \/ \E resp \in HttpResponses : SU_Fetch(resp)
    \/ \E resp \in HttpResponses : SU_FetchThrows(resp)
    \/ SU_Save
    \/ SU_SaveVersion
    \/ SU_SaveLifecycle
    \/ Finish
    \/ Kill

SpecLoadSU == InitLoadSU /\ [][NextLoadSU]_vars

\* C16: no smart-update run fails, whatever the state of visa-rules.json and
\* lifecycle.json it finds.
C16_NeverFailsOnPersistedState ==
    script = "su" => pc # "failed"

(***************************************************************************)
(* SpecRerunSU: smart-update runs one right after the other, no time and   *)
(* no other script in between, on Rulesets with timestamps of several ages.*)
(***************************************************************************)
InitRerunSU ==
    /\ InitIdle
    /\ FilesOk
    /\ NoProgressFiles
    /\ now = MaxNow
    /\ diskRules \in InitRulesets
    /\ diskLifecycle \in
          {EmptyLifecycle, initLifecycle(diskRules, 0),
           initLifecycle(diskRules, MaxNow - SKIP_IF_UPDATED_WITHIN_DAYS * MS_PER_DAY),
           [initLifecycle(diskRules, 0) EXCEPT ![<<"GB", "FR">>] = MaxNow - 1]}

NextRerunSU ==
    \/ SU_Start
    \/ \E resp \in HttpResponses : SU_Fetch(resp)
    \/ SU_Save
    \/ SU_SaveVersion
    \/ SU_SaveLifecycle
    \/ SU_End

SpecRerunSU == InitRerunSU /\ [][NextRerunSU]_vars

\* C17: in a smart-update run that starts when the previous one has just
\* ended, no pair the previous run updated is in the queue, and the batch is
\* the first REQUESTS_PER_RUN items of the previous queue without the pairs
\* that run updated.
C17_RerunTakesNextPairs ==
    (script = "su" /\ pc # "failed" /\ prevRun.ended /\ prevRun.endedAt = now)
    => LET NotUpdated(item) == item.pair \notin prevRun.updatedPairs
           rest == SelectSeq(prevRun.queue, NotUpdated)
       IN /\ \A i \in DOMAIN queue : queue[i].pair \notin prevRun.updatedPairs
          /\ queue = rest
          /\ batch = SubSeq(rest, 1, IF Len(rest) < SU_REQUESTS_PER_RUN
                                     THEN Len(rest) ELSE SU_REQUESTS_PER_RUN)

\* C17's case: the first run updated one pair of a longer queue and was then
\* stopped, and the second run has planned what was left.
C17_Witness ==
    /\ script = "su"
    /\ prevRun.ended
    /\ prevRun.stopped
    /\ Cardinality(prevRun.updatedPairs) = 1
    /\ Len(prevRun.queue) > SU_REQUESTS_PER_RUN
    /\ Len(batch) = SU_REQUESTS_PER_RUN
    /\ pc = "loop"

(***************************************************************************)
(* SpecCU: runs of the conservative updater, one after the other, from any *)
(* lastPassportIndex in progress.json.                                     *)
(***************************************************************************)
InitCU ==
    /\ InitIdle
    /\ FilesOk
    /\ now = 0
    /\ diskRules \in {EmptyRules} \cup InitRulesets
    /\ diskLifecycle = EmptyLifecycle
    /\ diskProProgress = DefaultProProgress
    /\ diskFullProgress = DefaultFullProgress
    /\ diskProgress \in 0..MaxIndex

NextCU ==
    \/ CU_Start
    \/ \E resp \in HttpResponses : CU_Fetch(resp)
    \/ SaveProgress
    \/ SaveDataRules
    \/ SaveDataVersion
    \/ Finish

SpecCU == InitCU /\ [][NextCU]_vars

\* C18: a run of the conservative updater that loaded lastPassportIndex takes
\* the passports from index lastPassportIndex mod N on, at least one and at
\* most PASSPORTS_PER_RUN of them; the index it has persisted is in 0..N-1, the
\* start index when the run was rate limited and (start + PASSPORTS_PER_RUN)
\* mod N when not.
C18_CursorWraps ==
    script = "cu" =>
        LET N == Len(ALL_PASSPORTS) IN
        /\ pc \in {"loop", "finalProgress"} => startIndex = diskProgress % N
        /\ Len(passportsToProcess) \in 1..PASSPORTS_PER_RUN
        /\ \A k \in DOMAIN passportsToProcess :
              passportsToProcess[k] = ALL_PASSPORTS[startIndex + k]
        /\ pc \in {"finalRules", "finalVersion", "done"} =>
              /\ diskProgress \in 0..(N - 1)
              /\ stopped => diskProgress = startIndex
              /\ ~stopped => diskProgress = (startIndex + PASSPORTS_PER_RUN) % N

\* C18's case: a run that loaded index 5 of 3 passports took the one passport
\* at index 2, was not rate limited, and persisted index 1.
C18_Witness ==
    /\ script = "cu"
    /\ pc = "done"
    /\ startIndex = 2
    /\ passportsToProcess = <<"FR">>
    /\ ~stopped
    /\ lookups > 0
    /\ diskProgress = 1

(***************************************************************************)
(* SpecSaves: runs of smart-update and of the conservative updater in any  *)
(* order, with the clock advancing between the runs and between the two    *)
(* Date.now() calls of the conservative updater's saveData.                *)
(***************************************************************************)
\* update-visa-data.js:151 and 160: saveData reads the clock once for
\* visa-rules.json and again for version.json; the second reading may be a
\* later one.
CU_ClockAdvances ==
    /\ script = "cu"
    /\ pc = "finalVersion"
    /\ now = diskDataVersion
    /\ now + 1 <= MaxNow
    /\ now' = now + 1
    /\ UNCHANGED <<runs, diskVars, script, pc, memVars>>

NextSaves ==
    \/ SU_Start
    \/ \E resp \in HttpResponses : SU_Fetch(resp)
    \/ SU_Save
    \/ SU_SaveVersion
    \/ SU_SaveLifecycle
    \/ CU_Start
    \/ \E resp \in HttpResponses : CU_Fetch(resp)
    \/ SaveProgress
    \/ SaveDataRules
    \/ CU_ClockAdvances
    \/ SaveDataVersion
    \/ Finish
    \/ \E d \in TickSteps : Tick(d)

\* The Ruleset of the seed import with no record for GB.
SeedRuleset ==
    CHOOSE r \in InitRulesets :
        r[<<"GB", "NG">>] = NoRecord /\ r[<<"GB", "FR">>] = NoRecord

InitSaves ==
    /\ InitIdle
    /\ FilesOk
    /\ NoProgressFiles
    /\ now = 0
    /\ diskRules = SeedRuleset
    /\ diskLifecycle = EmptyLifecycle

SpecSaves == InitSaves /\ [][NextSaves]_vars

\* A step that writes visa-rules.json.
RulesetSaved ==
    \/ script = "su" /\ pc = "save" /\ pc' = "saveVersion"
    \/ pc \in {"ckptRules", "finalRules"} /\ pc' \in {"ckptVersion", "finalVersion"}

\* A step that writes version.json.
VersionSaved ==
    \/ script = "su" /\ pc = "saveVersion" /\ pc' = "saveLifecycle"
    \/ pc \in {"ckptVersion", "finalVersion"} /\ pc' \notin {"ckptVersion", "finalVersion"}
                                              /\ script' # "idle"

\* C19: every save of the Ruleset stamps it with the clock (lastUpdated is the
\* text of the same reading and dataVersion its number), and over any sequence
\* of saves by any script the dataVersion of visa-rules.json and of
\* version.json never decreases.
C19_DataVersionMonotone ==
    [][/\ diskDataVersion' >= diskDataVersion
       /\ versionFile' >= versionFile
       /\ RulesetSaved => diskDataVersion' = now
       /\ VersionSaved => versionFile' = now]_vars

\* C19's case: after a smart-update run that saved (it alone writes the
\* lifecycle file), a later run of the conservative updater has saved both
\* documents with larger stamps.
C19_Witness ==
    /\ script = "cu"
    /\ pc = "done"
    /\ diskLifecycle # EmptyLifecycle
    /\ \A pr \in PairKeys : diskLifecycle[pr] < diskDataVersion
    /\ versionFile > diskDataVersion

(***************************************************************************)
(* SpecReader: a smart-update run whose saves are the system calls of      *)
(* fs.writeFileSync (open with truncation, write, close), and another      *)
(* process that reads the files while the save is going on.                *)
(***************************************************************************)
\* smart-update.js:101: fs.writeFileSync opens visa-rules.json for writing,
\* which empties it; until the last byte is written the file holds a prefix of
\* the new text, which does not parse.
SU_SaveOpens ==
    /\ script = "su"
    /\ pc = "save"
    /\ updated > 0
    /\ fileState' = [fileState EXCEPT !.rules = "corrupt"]
    /\ pc' = "saveWriting"
    /\ UNCHANGED <<diskProProgress, diskFullProgress, diskProgress, now, runs,
                   diskRules, diskDataVersion, versionFile, diskLifecycle,
                   script, memVars>>

\* smart-update.js:101: the write of visa-rules.json is complete.
SU_SaveWrites ==
    /\ script = "su"
    /\ pc = "saveWriting"
    /\ diskRules' = memRules
    /\ diskDataVersion' = now
    /\ fileState' = [fileState EXCEPT !.rules = "ok"]
    /\ pc' = "saveVersion"
    /\ UNCHANGED <<diskProProgress, diskFullProgress, diskProgress, now, runs,
                   versionFile, diskLifecycle, script, memVars>>

\* smart-update.js:92: fs.writeFileSync opens lifecycle.json for writing.
SU_SaveLifecycleOpens ==
    /\ script = "su"
    /\ pc = "saveLifecycle"
    /\ fileState' = [fileState EXCEPT !.lifecycle = "corrupt"]
    /\ pc' = "lifecycleWriting"
    /\ UNCHANGED <<diskProProgress, diskFullProgress, diskProgress, now, runs,
                   diskRules, diskDataVersion, versionFile, diskLifecycle,
                   script, memVars>>

\* smart-update.js:92: the write of lifecycle.json is complete.
SU_SaveLifecycleWrites ==
    /\ script = "su"
    /\ pc = "lifecycleWriting"
    /\ diskLifecycle' = memLifecycle
    /\ fileState' = [fileState EXCEPT !.lifecycle = "ok"]
    /\ pc' = "done"
    /\ UNCHANGED <<diskProProgress, diskFullProgress, diskProgress, now, runs,
                   diskRules, diskDataVersion, versionFile, script, memVars>>

SavePhases == {"saveWriting", "saveVersion", "saveLifecycle", "lifecycleWriting"}

\* Another process reads one of the files while the save is in progress.
Reader_Read(file) ==
    /\ script = "su"
    /\ pc \in SavePhases
    /\ readerSaw' = [file |-> file,
                     complete |-> fileState[file] = "ok",
                     content |-> IF fileState[file] # "ok" THEN <<>>
                                 ELSE IF file = "rules" THEN diskRules
                                 ELSE diskLifecycle]
    /\ UNCHANGED <<now, runs, diskVars, script, pc, loopVars, progress,
                   completedSet, pIdx, dIdx, cuVars, prevRun, netVars>>

NextReader ==
    \/ SU_Start
    \/ \E resp \in HttpResponses : SU_Fetch(resp)
    \/ updated = 0 /\ SU_Save
    \/ SU_SaveOpens
    \/ SU_SaveWrites
    \/ SU_SaveVersion
    \/ SU_SaveLifecycleOpens
    \/ SU_SaveLifecycleWrites
    \/ \E file \in {"rules", "lifecycle"} : Reader_Read(file)
    \/ Finish

SpecReader == InitSU /\ [][NextReader]_vars

\* C20: a reader that reads a persisted document while a save is in progress
\* finds a complete document, the previous one or the new one, never a
\* partially written one.
C20_ReaderSeesCompleteDocument ==
    readerSaw # NoRead =>
        /\ readerSaw.complete
        /\ readerSaw.file = "rules" =>
              (script = "su" => readerSaw.content \in {startRules, memRules})

(***************************************************************************)
(* The seed import (import-free-dataset.js:1-147): it reads the CSV file   *)
(* of the free dataset and fills the gaps of the Ruleset.                  *)
(***************************************************************************)
\* import-free-dataset.js:19-50.  "" stands for null (the line is skipped).
IM_normalizeRequirement(req) ==
    IF req = "" THEN ""
    ELSE LET r == trim(toLowerCase(req)) IN
         IF IsDigits(r) THEN "visa-free"
         ELSE IF r = "visa free" \/ r = "visa-free" \/ r = "free" THEN "visa-free"
         ELSE IF r = "visa on arrival" \/ r = "voa" THEN "visa-on-arrival"
         ELSE IF r = "eta" THEN "eta"
         ELSE IF r = "e-visa" \/ r = "evisa" THEN "e-visa"
         ELSE IF r = "visa required" \/ r = "visa-required" THEN "visa-required"
         ELSE IF r = "no admission" \/ r = "-1" THEN ""
         ELSE "visa-required"

\* The body of the loop over the data lines (lines 82-125), with the test on
\* the existing record left out.
IM_Line_Overwrites(acc, parts) ==
    IF Len(parts) < 3 THEN acc
    ELSE LET passport == toUpperCase(trim(parts[1]))
             destination == toUpperCase(trim(parts[2]))
             normalized == IM_normalizeRequirement(trim(parts[3]))
         IN IF passport = destination THEN acc
            ELSE IF normalized = ""
            THEN [acc EXCEPT !.skipped = @ + 1]
            ELSE [acc EXCEPT
                     !.rules[<<passport, destination>>] =
                         Rec(normalized, None, "passport-index"),
                     !.imported = @ + 1]

\* The body of the loop over the data lines (lines 82-125).
IM_Line(acc, parts) ==
    IF Len(parts) < 3 THEN acc
    ELSE LET passport == toUpperCase(trim(parts[1]))
             destination == toUpperCase(trim(parts[2]))
             normalized == IM_normalizeRequirement(trim(parts[3]))
         IN IF passport = destination THEN acc
            ELSE IF normalized = ""
            THEN [acc EXCEPT !.skipped = @ + 1]
            ELSE LET existing == acc.rules[<<passport, destination>>] IN
                 IF ~existing.exists \/ existing.requirement = "unknown"
                 THEN [acc EXCEPT
                          !.rules[<<passport, destination>>] =
                              Rec(normalized, None, "passport-index"),
                          !.imported = @ + 1]
                 ELSE [acc EXCEPT !.preserved = @ + 1]

\* The loop over the data lines (line 82).
RECURSIVE IM_Lines(_, _)
IM_Lines(acc, dataLines) ==
    IF Len(dataLines) = 0 THEN acc
    ELSE IM_Lines(IM_Line(acc, Head(dataLines)), Tail(dataLines))

\* The data lines a CSV file may hold: codes in either case and with blanks,
\* self references, short lines, and requirement texts of every branch of the
\* normalizer.
CsvRequirements == {"", "90", "Visa Free ", "-1", "unknown"}

CsvLine ==
    {<<p, d, r>> : p \in {"ng", "FR"}, d \in {"GB", " fr", "NG"},
                   r \in CsvRequirements}
        \cup {<<"NG", "GB">>}

RECURSIVE SeqsUpTo(_, _)
SeqsUpTo(S, n) ==
    IF n = 0 THEN {<<>>}
    ELSE LET shorter == SeqsUpTo(S, n - 1)
         IN shorter \cup {Append(q, x) : q \in {t \in shorter : Len(t) = n - 1},
                                         x \in S}

CsvFiles == SeqsUpTo(CsvLine, MaxCsvLines)

\* main up to the save (lines 55-125): the Ruleset is loaded and the lines
\* are applied to it in memory.
IM_Start ==
    /\ script = "idle"
    /\ runs < MaxRuns
    /\ fileState.rules = "ok"
    /\ runs' = runs + 1
    /\ script' = "im"
    /\ \E csv \in CsvFiles :
          LET result == IM_Lines([rules |-> diskRules, imported |-> 0,
                                  skipped |-> 0, preserved |-> 0], csv)
          IN /\ memRules' = result.rules
             /\ updated' = result.imported
             /\ skipped' = result.skipped
    /\ startRules' = diskRules
    /\ pc' = "finalRules"
    /\ UNCHANGED <<now, diskVars, memLifecycle, queue, batch, idx, retryCount,
                   requestsThisRun, stopped, lookups, failed, lastResponse,
                   cursorVars>>

InitIM ==
    /\ InitIdle
    /\ FilesOk
    /\ NoProgressFiles
    /\ now = 0
    /\ \E rules \in InitRulesets : diskRules \in {rules, Refreshed(rules, 0)}
    /\ diskLifecycle = EmptyLifecycle

\* One import: the script is run by hand, once.
NextIM ==
    \/ IM_Start
    \/ SaveDataRules
    \/ SaveDataVersion

SpecIM == InitIM /\ [][NextIM]_vars

\* C21: the seed import changes the record of a pair only when the pair had
\* no record or an 'unknown' one; a pair with a non-unknown record keeps the
\* identical record; no record the import writes is 'unknown'; and what it
\* saves is that Ruleset.
C21_ImportFillsGapsOnly ==
    script = "im" =>
        /\ \A pr \in PairKeys :
              /\ Good(startRules[pr]) => memRules[pr] = startRules[pr]
              /\ memRules[pr] # startRules[pr] =>
                    /\ ~startRules[pr].exists \/ startRules[pr].requirement = "unknown"
                    /\ memRules[pr].exists
                    /\ memRules[pr].requirement # "unknown"
        /\ pc \in {"finalVersion", "done"} => diskRules = memRules

\* C21's case: an import has saved a Ruleset in which the 'unknown' record of
\* FR->GB and the missing record of NG->FR are filled and the others are as
\* they were, among them records refreshed by the API.
C21_Witness ==
    /\ script = "im"
    /\ pc = "done"
    /\ startRules[<<"FR", "GB">>].requirement = "unknown"
    /\ diskRules[<<"FR", "GB">>] = Rec("visa-free", None, "passport-index")
    /\ ~startRules[<<"NG", "FR">>].exists
    /\ diskRules[<<"NG", "FR">>] = Rec("visa-required", None, "passport-index")
    /\ diskRules[<<"NG", "GB">>] = Rec("visa-free", 0, "rapidapi-pro")
    /\ skipped = 0

(***************************************************************************)
(* The original full-rebuild script (update-visa-data.js:265-431): it      *)
(* looks up every pair and writes a Ruleset made of the answers alone.     *)
(***************************************************************************)
\* update-visa-data.js:344-366.
RB_normalizeRequirement(requirement) ==
    IF requirement = "" THEN "unknown"
    ELSE LET normalized == trim(toLowerCase(requirement)) IN
         IF \/ includes(normalized, "visa free")
            \/ includes(normalized, "visa-free")
            \/ normalized = "free"
         THEN "visa-free"
         ELSE IF \/ includes(normalized, "visa on arrival")
                 \/ includes(normalized, "voa")
         THEN "visa-on-arrival"
         ELSE IF \/ includes(normalized, "e-visa")
                 \/ includes(normalized, "evisa")
                 \/ includes(normalized, "electronic")
         THEN "e-visa"
         ELSE IF \/ includes(normalized, "eta")
                 \/ includes(normalized, "electronic travel")
         THEN "eta"
         ELSE IF \/ includes(normalized, "required")
                 \/ includes(normalized, "visa")
         THEN "visa-required"
         ELSE "unknown"

\* update-visa-data.js:310-342: one attempt; null on an HTTP error and on a
\* thrown error.
RB_checkVisaRequirement(resp) ==
    IF resp.status = 0 THEN Result("null", NoRecord)
    ELSE IF ~ResponseOk(resp) THEN Result("null", NoRecord)
    ELSE Result("record", Rec(RB_normalizeRequirement(resp.requirement), None, ""))

\* The pairs the loops of lines 378-384 visit.
RB_Pairs ==
    LET all == NestedLoop(ALL_PASSPORTS, DESTINATION_COUNTRIES)
        NotSelf(pr) == pr[1] # pr[2]
        Item(pr) == [pair |-> pr]
        pairs == SelectSeq(all, NotSelf)
    IN [k \in DOMAIN pairs |-> Item(pairs[k])]

\* update-visa-data.js:372-380: main starts from an empty visaRules and never
\* reads visa-rules.json.
RB_Start ==
    /\ script = "idle"
    /\ runs < MaxRuns
    /\ runs' = runs + 1
    /\ script' = "rb"
    /\ memRules' = EmptyRules
    /\ startRules' = diskRules
    /\ batch' = RB_Pairs
    /\ idx' = 1
    /\ pc' = "loop"
    /\ UNCHANGED <<now, diskVars, memLifecycle, queue, retryCount,
                   requestsThisRun, updated, skipped, stopped, lookups, failed,
                   lastResponse, cursorVars>>

\* update-visa-data.js:386-400: one lookup; the answer, if any, is stored.
RB_Fetch(resp) ==
    /\ script = "rb"
    /\ pc = "loop"
    /\ LET pr == batch[idx].pair
           result == RB_checkVisaRequirement(resp)
       IN /\ memRules' = IF result.kind = "record"
                         THEN [memRules EXCEPT ![pr] = result.record]
                         ELSE memRules
          /\ updated' = IF result.kind = "record" THEN updated + 1 ELSE updated
          /\ skipped' = IF result.kind = "record" THEN skipped ELSE skipped + 1
          /\ LookupReturned(resp, pr)
    /\ lookups' = lookups + 1
    /\ idx' = idx + 1
    /\ pc' = IF idx + 1 > Len(batch) THEN "finalRules" ELSE "loop"
    /\ UNCHANGED <<now, runs, diskVars, script, memLifecycle, queue, batch,
                   retryCount, requestsThisRun, stopped, startRules, cursorVars>>

NextRB ==
    \/ RB_Start
    \/ \E resp \in HttpResponses : RB_Fetch(resp)
    \/ SaveDataRules
    \/ SaveDataVersion

SpecRB == InitIM /\ [][NextRB]_vars

\* C22: no run of an updater script removes an entry: a pair with a record in
\* the persisted Ruleset before the run has a record in it after the run.
C22_NoEntryRemoved ==
    (script # "idle" /\ pc = "done") =>
        \A pr \in PairKeys : startRules[pr].exists => diskRules[pr].exists

(***************************************************************************)
(* Claims about the lookup of smart-update.                                *)
(***************************************************************************)
\* A thrown network error, or an HTTP error response other than 429.
TransientFailure(resp) ==
    resp.status = 0 \/ (resp.status # 429 /\ ~ResponseOk(resp))

\* C23: in smart-update, a lookup that ends on a transient failure (a thrown
\* network error or a non-429 HTTP error) has been retried MAX_RETRIES times
\* before its pair is skipped; the skip is counted and the run goes on.
C23_TransientRetriedToCeiling ==
    [][(/\ script = "su"
        /\ pc = "loop"
        /\ lastResponse' # lastResponse
        /\ TransientFailure(lastResponse'))
       => /\ retryCount = MAX_RETRIES
          /\ skipped' = skipped + 1
          /\ pc' \in {"loop", "save"}
          /\ stopped' = stopped]_vars

\* C24: a call of smart-update's checkVisaRequirement makes at most
\* MAX_RETRIES + 1 HTTP attempts, whatever the order of 429 responses and
\* network errors (the attempt after MAX_RETRIES retries always returns), and
\* it returns the rate-limited stop signal only on a 429 received with the
\* retry ceiling reached.
C24_LookupAttemptsBounded ==
    [][script = "su" /\ pc = "loop" /\ script' = "su"
       => /\ retryCount' <= MAX_RETRIES
          /\ retryCount = MAX_RETRIES => retryCount' = 0
          /\ retryCount' # 0 => retryCount' = retryCount + 1
          /\ (stopped' /\ lastResponse'.status = 429) => retryCount = MAX_RETRIES
          /\ (stopped' /\ lastResponse'.status # 429)
                => SU_checkVisaRequirement(lastResponse', retryCount).kind
                       = "quotaExceeded"]_vars

\* C24's case: the second lookup of a run has returned the rate-limited stop
\* signal, which it does on its last permitted attempt only.
C24_Witness ==
    /\ script = "su"
    /\ pc = "save"
    /\ stopped
    /\ lookups = 2
    /\ lastResponse.status = 429

(***************************************************************************)
(* SpecRequests: one run of smart-update or of Pro smart refresh, with the *)
(* HTTP requests counted and the sleeps between them recorded.             *)
(***************************************************************************)
\* smart-update.js:215-217, 250-253 and 343: what the run sleeps after an
\* attempt that got resp, before its next request (0 when the loop ends).
SU_SleepAfter(resp, retries) ==
    LET kind == SU_checkVisaRequirement(resp, retries).kind IN
    IF kind = "retry"
    THEN IF resp.status = 429
         THEN SU_REQUEST_DELAY_MS * BACKOFF_MULTIPLIER ^ (retries + 1)
         ELSE SU_REQUEST_DELAY_MS * BACKOFF_MULTIPLIER ^ retries
    ELSE IF kind \in {"rateLimited", "quotaExceeded"} THEN 0
    ELSE SU_REQUEST_DELAY_MS

\* import-free-dataset.js:753-755, 776-777 and 891.
PS_SleepAfter(resp, retries) ==
    LET kind == PS_checkVisaRequirement(resp, retries, 0).kind IN
    IF kind = "retry"
    THEN IF resp.status = 429
         THEN PS_RATE_LIMIT_BACKOFF_MS * BACKOFF_MULTIPLIER ^ retries
         ELSE PS_ERROR_BACKOFF_MS * BACKOFF_MULTIPLIER ^ retries
    ELSE IF kind = "rateLimited" THEN 0
    ELSE PS_REQUEST_DELAY_MS

SU_Request(resp) ==
    /\ SU_FetchBody(resp)
    /\ httpRequests' = httpRequests + 1
    /\ waited' = SU_SleepAfter(resp, retryCount)
    /\ UNCHANGED <<normalizerResult, apiFails>>

PS_Request(resp) ==
    /\ PS_FetchBody(resp)
    /\ httpRequests' = httpRequests + 1
    /\ waited' = PS_SleepAfter(resp, retryCount)
    /\ UNCHANGED <<normalizerResult, apiFails>>

NextRequests ==
    \/ SU_Start
    \/ \E resp \in HttpResponses : SU_Request(resp)
    \/ SU_Save
    \/ SU_SaveVersion
    \/ SU_SaveLifecycle
    \/ PS_Start
    \/ \E resp \in HttpResponses : PS_Request(resp)
    \/ SaveDataRules
    \/ SaveDataVersion

SpecRequests == InitSaves /\ [][NextRequests]_vars

REQUEST_DELAY_MS ==
    IF script = "su" THEN SU_REQUEST_DELAY_MS ELSE PS_REQUEST_DELAY_MS

\* C25: within a run, the executor has waited at least REQUEST_DELAY_MS since
\* its last HTTP request when it sends the next one, retries included.
C25_MinimumDelay ==
    (script \in {"su", "ps"} /\ pc = "loop" /\ httpRequests > 0)
        => waited >= REQUEST_DELAY_MS

\* C29: a smart-update run sends at most REQUESTS_PER_RUN HTTP requests,
\* retries included.
C29_RequestsWithinBudget ==
    script = "su" => httpRequests <= SU_REQUESTS_PER_RUN

\* The pairs of the budget-bounded batch.
BatchPairs == {batch[i].pair : i \in DOMAIN batch}

\* The records a successful lookup of smart-update returns.
SU_Returned ==
    {SU_checkVisaRequirement(resp, 0).record : resp \in
        {r \in HttpResponses : SU_checkVisaRequirement(r, 0).kind = "record"}}

\* C26: when every lookup of the batch of a smart-update run has succeeded
\* with a recognized requirement, then at the end of the run the persisted
\* Ruleset is the prior one with exactly the batch pairs set to returned
\* values, the persisted Lifecycle State has the time of the run for each
\* batch pair, and the summary is updated = batch size, skipped = 0, not
\* stopped.
C26_AllSucceed ==
    (/\ script = "su"
     /\ pc = "done"
     /\ Len(batch) > 0
     /\ lookups = Len(batch)
     /\ failed = {})
    => /\ \A pr \in PairKeys :
             IF pr \in BatchPairs
             THEN /\ diskRules[pr] \in SU_Returned
                  /\ diskLifecycle[pr] = now
             ELSE diskRules[pr] = startRules[pr]
       /\ diskRules[batch[Len(batch)].pair].requirement
              = normalizeRequirement(lastResponse.requirement)
       /\ updated = Len(batch)
       /\ skipped = 0
       /\ ~stopped
       /\ diskDataVersion = now
       /\ versionFile = now

\* C26's case: a run has looked up a full batch with success, one of its pairs
\* having had no record before.
C26_Witness ==
    /\ script = "su"
    /\ pc = "done"
    /\ Len(batch) = SU_REQUESTS_PER_RUN
    /\ lookups = Len(batch)
    /\ failed = {}
    /\ updated = Len(batch)
    /\ \E pr \in BatchPairs : ~startRules[pr].exists /\ Good(diskRules[pr])

(***************************************************************************)
(* SpecNormalize: a smart-update run whose 200 responses carry any JSON    *)
(* value in the requirement field.                                         *)
(***************************************************************************)
\* JSON values of `responseData.requirement || responseData.visa_requirement`.
JsAbsent == [type |-> "undefined"]
JsNumber(n) == [type |-> "number", value |-> n]
JsBoolean(b) == [type |-> "boolean", value |-> b]
JsString(str) == [type |-> "string", value |-> str]

ApiRequirementTexts ==
    {"", " ", "Visa Free", " visa-free ", "FREE", "free entry", "Visa on arrival",
     "VOA", "e-Visa", "evisa", "Electronic visa", "ETA", "Electronic Travel",
     "Visa required", "VISA", "meta", "No admission", "90", "unknown", "??"}

ApiRequirements ==
    {JsAbsent, JsNumber(0), JsNumber(90), JsBoolean(TRUE), JsBoolean(FALSE)}
        \cup {JsString(str) : str \in ApiRequirementTexts}

\* !requirement
Falsy(v) ==
    \/ v.type = "undefined"
    \/ v.type = "number" /\ v.value = 0
    \/ v.type = "boolean" /\ ~v.value
    \/ v.type = "string" /\ v.value = ""

CanonicalRequirements ==
    {"visa-free", "visa-on-arrival", "e-visa", "eta", "visa-required", "unknown"}

\* smart-update.js:165-185 on a JSON value: `requirement.toLowerCase` is not a
\* function when the value is a non-zero number or true, and the call throws
\* a TypeError.
normalizeRequirementOf(v) ==
    IF Falsy(v) THEN [called |-> TRUE, raised |-> FALSE, value |-> "unknown"]
    ELSE IF v.type # "string" THEN [called |-> TRUE, raised |-> TRUE, value |-> ""]
    ELSE [called |-> TRUE, raised |-> FALSE, value |-> normalizeRequirement(v.value)]

\* smart-update.js:227-257: the exchange as checkVisaRequirement goes through
\* it.  A TypeError of normalizeRequirement is thrown inside the try block and
\* caught by the catch branch, as an error thrown by fetch is.
AsResponse(v) ==
    IF normalizeRequirementOf(v).raised THEN Resp(0, "", "")
    ELSE IF Falsy(v) THEN Resp(200, "", "")
    ELSE Resp(200, "", v.value)

SU_FetchValue(v) ==
    /\ SU_FetchBody(AsResponse(v))
    /\ normalizerResult' = normalizeRequirementOf(v)
    /\ UNCHANGED <<httpRequests, waited, apiFails>>

NextNormalize ==
    \/ SU_Start
    \/ \E v \in ApiRequirements : SU_FetchValue(v)
    \/ SU_Save
    \/ SU_SaveVersion
    \/ SU_SaveLifecycle

SpecNormalize == InitSaves /\ [][NextNormalize]_vars

\* C27: normalizeRequirement never raises and returns one of the six canonical
\* values for every value of the requirement field, and a response it cannot
\* parse ('unknown') ends the lookup without a retry.
C27_NormalizerTotal ==
    normalizerResult.called =>
        /\ ~normalizerResult.raised
        /\ normalizerResult.value \in CanonicalRequirements
        /\ retryCount = 0

(***************************************************************************)
(* SpecReplanSU: smart-update runs with time passing between them.         *)
(***************************************************************************)
InitReplanSU ==
    /\ InitIdle
    /\ FilesOk
    /\ NoProgressFiles
    /\ now = 0
    /\ diskRules \in InitRulesets
    /\ diskLifecycle \in {EmptyLifecycle, initLifecycle(diskRules, 0)}

NextReplanSU ==
    \/ SU_Start
    \/ \E resp \in HttpResponses : SU_Fetch(resp)
    \/ SU_Save
    \/ SU_SaveVersion
    \/ SU_SaveLifecycle
    \/ SU_End
    \/ \E d \in TickSteps : Tick(d)

SpecReplanSU == InitReplanSU /\ [][NextReplanSU]_vars

\* The pairs of a queue, in its order.
QueuePairs(q) == [i \in DOMAIN q |-> q[i].pair]

\* C28: the planner is deterministic: called again on the same Ruleset and
\* Lifecycle State (the previous run saved nothing), getPairsToUpdate returns
\* the same pairs in the same order.
C28_PlannerDeterministic ==
    (script = "su" /\ pc # "failed" /\ prevRun.ended /\ prevRun.updatedPairs = {})
        => QueuePairs(queue) = QueuePairs(prevRun.queue)

\* C30: when a save is complete, version.json holds the stamp (lastUpdated
\* and dataVersion, one reading of the clock) of the visa-rules.json the same
\* save has written, in smart-update and in the conservative updater.
C30_VersionStampMatches ==
    (/\ pc = "done"
     /\ script = "cu" \/ (script = "su" /\ updated > 0))
        => versionFile = diskDataVersion

(***************************************************************************)
(* SpecRepeatSU: smart-update runs without end, one after the other, on a  *)
(* lookup API that fails on some pairs at every attempt and succeeds on    *)
(* the others (no rate limiting).                                          *)
(***************************************************************************)
\* What the API answers on a pair: a thrown fetch, an HTTP error or a text
\* the normalizer does not recognize on a pair of apiFails, a requirement on
\* the others.
ResponsesFor(pr) ==
    IF pr \in apiFails
    THEN {Resp(0, "", ""), Resp(500, "", ""), Resp(200, "", "No admission")}
    ELSE {Resp(200, "", " Visa Free")}

\* The scheduled workflow starts the next run: the finished process is gone,
\* and the model's count of runs starts over.
SU_RunAgain ==
    /\ script = "su"
    /\ pc = "done"
    /\ script' = "idle"
    /\ pc' = "idle"
    /\ runs' = 0
    /\ NoMemory
    /\ UNCHANGED <<now, diskVars, histVars>>

\* One HTTP exchange of the lookup of batch[idx], answered as the API answers
\* on that pair.
SU_Answer(resp) ==
    /\ script = "su"
    /\ pc = "loop"
    /\ resp \in ResponsesFor(batch[idx].pair)
    /\ SU_Fetch(resp)

InitRepeatSU ==
    /\ InitMemory
    /\ FilesOk
    /\ NoProgressFiles
    /\ now = 0
    /\ diskRules \in InitRulesets
    /\ diskLifecycle = EmptyLifecycle
    /\ apiFails \in SUBSET SU_Pairs

NextRepeatSU ==
    \/ SU_Start
    \/ \E resp \in HttpResponses : SU_Answer(resp)
    \/ SU_Save
    \/ SU_SaveVersion
    \/ SU_SaveLifecycle
    \/ SU_RunAgain

\* Every run that can take a step takes it, and a finished run is followed by
\* another one.  A lookup is the only step of a run in its loop, and the API
\* answers every attempt, so the fairness of the lookup step is that no run
\* stays in its loop for ever.
SpecRepeatSU ==
    /\ InitRepeatSU
    /\ [][NextRepeatSU]_vars
    /\ WF_vars(SU_Start)
    /\ WF_vars(SU_Save)
    /\ WF_vars(SU_SaveVersion)
    /\ WF_vars(SU_SaveLifecycle)
    /\ WF_vars(SU_RunAgain)
    /\ []<>(~(script = "su" /\ pc = "loop"))

\* C31: under repeated smart-update runs, every pair of the priority passports
\* that is missing or 'unknown' and whose lookup succeeds gets a record in
\* visa-rules.json in the end, whatever pairs fail at every attempt.
C31_MissingEventuallyFilled ==
    \A pr \in SU_Pairs :
        (~Good(diskRules[pr]) /\ pr \notin apiFails) ~> Good(diskRules[pr])

(***************************************************************************)
(* SpecRepeatCU: runs of the conservative updater without end, one after   *)
(* the other, from any persisted cursor, with every lookup answered by a   *)
(* requirement (no rate limiting, no error).                               *)
(***************************************************************************)
\* One lookup of the conservative updater that returns a result.
CU_Succeeds(resp) ==
    /\ CU_checkVisaRequirement(resp).kind = "record"
    /\ CU_Fetch(resp)

\* The next scheduled run: the finished process is gone, and the model's count
\* of runs starts over.
CU_RunAgain ==
    /\ script = "cu"
    /\ pc = "done"
    /\ script' = "idle"
    /\ pc' = "idle"
    /\ runs' = 0
    /\ NoMemory
    /\ UNCHANGED <<now, diskVars, histVars>>

InitRepeatCU ==
    /\ InitIdle
    /\ FilesOk
    /\ now = 0
    /\ diskRules \in InitRulesets \cup {EmptyRules}
    /\ diskLifecycle = EmptyLifecycle
    /\ diskProProgress = DefaultProProgress
    /\ diskFullProgress = DefaultFullProgress
    /\ diskProgress \in 0..MaxIndex

NextRepeatCU ==
    \/ CU_Start
    \/ \E resp \in HttpResponses : CU_Succeeds(resp)
    \/ SaveProgress
    \/ SaveDataRules
    \/ SaveDataVersion
    \/ CU_RunAgain

\* Every run that can take a step takes it, and a finished run is followed by
\* another one.  A lookup is the only step of a run in its loop, and every
\* lookup is answered, so the fairness of the lookup step is that no run stays
\* in its loop for ever.
SpecRepeatCU ==
    /\ InitRepeatCU
    /\ [][NextRepeatCU]_vars
    /\ WF_vars(CU_Start)
    /\ WF_vars(SaveProgress)
    /\ WF_vars(SaveDataRules)
    /\ WF_vars(SaveDataVersion)
    /\ WF_vars(CU_RunAgain)
    /\ []<>(~(script = "cu" /\ pc = "loop"))

\* The pairs the conservative updater works on.
CU_Pairs ==
    {pr \in Range(NestedLoop(ALL_PASSPORTS, DESTINATION_COUNTRIES)) : pr[1] # pr[2]}

\* C32: from any persisted cursor, consecutive runs of the conservative updater
\* that are not rate limited and whose lookups succeed come, after finitely
\* many runs, to a visa-rules.json that has, and keeps, a record for every
\* pair of ALL_PASSPORTS x DESTINATION_COUNTRIES with passport # destination.
C32_EveryPairGetsRecord ==
    <>[](\A pr \in CU_Pairs : diskRules[pr].exists)

\* C32's case: a run that started at index 0, after the cursor had wrapped
\* around from an index further on, looked up the pairs of the first passport
\* and saved the last records that were missing.
C32_Witness ==
    /\ script = "cu"
    /\ pc = "done"
    /\ startIndex = 0
    /\ lookups > 0
    /\ startRules # EmptyRules
    /\ \E pr \in CU_Pairs : pr[1] = "GB" /\ ~startRules[pr].exists
    /\ \A pr \in CU_Pairs : diskRules[pr].exists

\* C33: the conservative updater does not keep a stored 'unknown' record from
\* being overwritten: in a run that was not rate limited, every pair of a
\* processed passport whose stored record was 'unknown' has been looked up
\* (its lookup failed, or its record is a new one), and no record with
\* requirement 'unknown' has been stored by the run.
C33_UnknownNotProtected ==
    script = "cu" =>
        /\ \A pr \in CU_Pairs :
              (memRules[pr].exists /\ memRules[pr].requirement = "unknown")
                  => memRules[pr] = startRules[pr] /\ startRules[pr].exists
        /\ (pc = "done" /\ ~stopped) =>
              \A pr \in CU_Pairs :
                  (/\ pr[1] \in Range(passportsToProcess)
                   /\ startRules[pr].exists
                   /\ startRules[pr].requirement = "unknown")
                      => (pr \in failed \/ memRules[pr] # startRules[pr])

(***************************************************************************)
(* SpecMonthsPC: runs of Pro cursor refresh in the same month and in later *)
(* months, with any answer of the API.  SpecRepeatPC: runs without end,    *)
(* one or more in every calendar month, every lookup answered with a       *)
(* requirement.  There the month tokens of the model come round again      *)
(* after the month of MaxNow; as no month goes by without a run, a run     *)
(* still finds lastRefreshMonth different from the current month exactly   *)
(* when a month has passed since the run before.                           *)
(***************************************************************************)
\* The next calendar month begins, after a month that had its run.
MonthPasses ==
    /\ script = "idle"
    /\ diskProProgress.lastRefreshMonth = getCurrentMonth(now)
    /\ now' = IF getCurrentMonth(now) < getCurrentMonth(MaxNow)
              THEN now + 30 * MS_PER_DAY
              ELSE now % (30 * MS_PER_DAY)
    /\ UNCHANGED <<runs, diskVars, script, pc, memVars>>

\* The next scheduled run: the finished process is gone, and the model's count
\* of runs starts over.
PC_RunAgain ==
    /\ script = "pc"
    /\ pc = "done"
    /\ script' = "idle"
    /\ pc' = "idle"
    /\ runs' = 0
    /\ NoMemory
    /\ UNCHANGED <<now, diskVars, histVars>>

InitMonthsPC ==
    /\ InitIdle
    /\ FilesOk
    /\ NoProgressFiles
    /\ now = 0
    /\ diskRules = SeedRuleset
    /\ diskLifecycle = EmptyLifecycle

NextMonthsPC ==
    \/ PC_Start
    \/ \E resp \in HttpResponses : PC_Fetch(resp)
    \/ SaveProgress
    \/ SaveDataRules
    \/ SaveDataVersion
    \/ Finish
    \/ \E d \in TickSteps : Tick(d)

SpecMonthsPC == InitMonthsPC /\ [][NextMonthsPC]_vars

\* One HTTP exchange of a lookup of Pro cursor refresh that returns a result.
PC_Succeeds(resp) ==
    /\ PC_checkVisaRequirement(resp, retryCount, now).kind = "record"
    /\ PC_Fetch(resp)

NextRepeatPC ==
    \/ PC_Start
    \/ \E resp \in HttpResponses : PC_Succeeds(resp)
    \/ SaveProgress
    \/ SaveDataRules
    \/ SaveDataVersion
    \/ PC_RunAgain
    \/ MonthPasses

\* Every run that can take a step takes it, a finished run is followed by
\* another one, and the months pass.  A lookup is the only step of a run in
\* its loop, and every lookup is answered, so the fairness of the lookup step
\* is that no run stays in its loop for ever.
SpecRepeatPC ==
    /\ InitMonthsPC
    /\ [][NextRepeatPC]_vars
    /\ WF_vars(PC_Start)
    /\ WF_vars(SaveProgress)
    /\ WF_vars(SaveDataRules)
    /\ WF_vars(SaveDataVersion)
    /\ WF_vars(PC_RunAgain)
    /\ WF_vars(MonthPasses)
    /\ []<>(~(script = "pc" /\ pc = "loop"))

\* C34: under repeated runs of Pro cursor refresh, one or more in every month
\* and never rate limited, every passport of PRIORITY_PASSPORTS comes to have
\* a record written by the refresh in visa-rules.json.
C34_EveryPriorityPassportRefreshed ==
    \A p \in Range(PC_PRIORITY_PASSPORTS) :
        <>(\E d \in Countries : diskRules[<<p, d>>].source = "rapidapi-pro")

\* C35: over the runs of Pro cursor refresh within one calendar month the
\* persisted totalRequestsThisMonth never exceeds the monthly allotment, and a
\* run starts its count at 0 when the month token differs from the loaded
\* lastRefreshMonth and at the loaded count when it does not.
C35_MonthlyAllotmentKept ==
    [][/\ diskProProgress'.totalRequestsThisMonth <= PC_MONTHLY_ALLOTMENT
       /\ (script = "idle" /\ script' = "pc") =>
             progress'.totalRequestsThisMonth =
                 IF diskProProgress.lastRefreshMonth # getCurrentMonth(now)
                 THEN 0 ELSE diskProProgress.totalRequestsThisMonth]_vars

\* The pairs of Pro cursor refresh's two loops that come before the position
\* (passportIndex, destinationIndex): the pairs a cursor at that position
\* counts as processed.
PC_Before(prog) ==
    {pd \in (0..(Len(PC_PRIORITY_PASSPORTS) - 1)) \X (0..(Len(ALL_COUNTRIES) - 1)) :
        /\ PC_PRIORITY_PASSPORTS[pd[1] + 1] # ALL_COUNTRIES[pd[2] + 1]
        /\ \/ pd[1] < prog.passportIndex
           \/ pd[1] = prog.passportIndex /\ pd[2] < prog.destinationIndex}

\* C36: in Pro cursor refresh the cursor (passportIndex, destinationIndex)
\* always designates the first pair not yet processed.  The lookup that is due
\* is the one of the first pair at or after the cursor; a lookup that returns
\* without a rate-limit signal moves the cursor past exactly that pair; a
\* rate-limit signal leaves the cursor on the abandoned pair; the final save
\* persists the cursor; and a run that starts in the month of the persisted
\* cursor resumes at it.
C36_CursorDesignatesNextPair ==
    [][/\ (script' = "pc" /\ pc' = "loop") =>
             /\ <<pIdx', dIdx'>> \notin PC_Before(progress')
             /\ PC_Before([passportIndex |-> pIdx', destinationIndex |-> dIdx'])
                    = PC_Before(progress')
       /\ (script = "pc" /\ pc = "loop" /\ requestsThisRun' # requestsThisRun) =>
             IF stopped'
             THEN PC_Before(progress') = PC_Before(progress)
             ELSE PC_Before(progress') = PC_Before(progress) \cup {<<pIdx, dIdx>>}
       /\ (script = "pc" /\ pc # "loop" /\ script' = "pc") =>
             PC_Before(progress') = PC_Before(progress)
       /\ (script = "pc" /\ pc' = "done") =>
             /\ diskProProgress'.passportIndex = progress.passportIndex
             /\ diskProProgress'.destinationIndex = progress.destinationIndex
       /\ (script = "idle" /\ script' = "pc"
           /\ diskProProgress.lastRefreshMonth = getCurrentMonth(now)) =>
             PC_Before(progress') = PC_Before(diskProProgress)]_vars

\* C36's case: a run that resumed at the cursor the run before had persisted
\* after two pairs was rate limited at its second lookup and has persisted the
\* cursor on the abandoned pair, the fourth of the list.
C36_Witness ==
    /\ script = "pc"
    /\ pc = "done"
    /\ stopped
    /\ requestsThisRun = 2
    /\ Cardinality(PC_Before(diskProProgress)) = 3
    /\ diskProProgress.totalRequestsThisMonth = 4

\* C37: in full load, at every instant of a run, the saves included, every
\* pair that full-load-progress.json lists as completed and whose lookup in
\* this run gave a result has that result in visa-rules.json.
C37_CompletedResultsPersisted ==
    script = "fl" =>
        \A pr \in diskFullProgress.completedPairs :
            (pr \in completedSet /\ memRules[pr] # startRules[pr])
                => diskRules[pr] = memRules[pr]

\* The next run of full load ("Run multiple times until complete").
FL_RunAgain ==
    /\ script = "fl"
    /\ pc = "done"
    /\ script' = "idle"
    /\ pc' = "idle"
    /\ runs' = 0
    /\ NoMemory
    /\ UNCHANGED <<now, diskVars, histVars>>

\* The API answers a lookup with a requirement, with a server error, or the
\* fetch throws.
FL_Answers == {Resp(200, "", " Visa Free"), Resp(500, "", ""), Resp(0, "", "")}

NextRepeatFL ==
    \/ FL_Start
    \/ \E resp \in FL_Answers : FL_Fetch(resp)
    \/ SaveProgress
    \/ SaveDataRules
    \/ SaveDataVersion
    \/ FL_RunAgain

\* Full load starts from a Ruleset with no record.
InitRepeatFL ==
    /\ InitIdle
    /\ FilesOk
    /\ NoProgressFiles
    /\ now = 0
    /\ diskRules = EmptyRules
    /\ diskLifecycle = EmptyLifecycle

\* Full load run again and again, under every answer of the API.
SpecRepeatFL == InitRepeatFL /\ [][NextRepeatFL]_vars

\* C38: when a full-load run finds every generated pair completed (it issues
\* no lookup and reports the database complete), visa-rules.json has a record
\* for every pair (p, d) with p # d.
C38_CompleteMeansEveryPairHasRecord ==
    (script = "fl" /\ pc = "done" /\ Len(queue) = 0)
        => \A pr \in Range(generateAllPairs) : diskRules[pr].exists

\* The lookups a full-load run has issued since its last save of the progress
\* file: a periodic save follows every FL_SAVE_INTERVAL lookups that returned
\* without a rate-limit signal, idx - 1 of them so far.
FL_UnsavedRequests ==
    LET returned == idx - 1
        savesDone == IF pc = "ckptProgress"
                     THEN (returned \div FL_SAVE_INTERVAL) - 1
                     ELSE returned \div FL_SAVE_INTERVAL
    IN requestsThisRun - FL_SAVE_INTERVAL * savesDone

\* C39: every save of full-load-progress.json adds to the persisted
\* totalRequests exactly the lookups the run issued since its previous save,
\* so that after the final save of a run, whatever stopped it, totalRequests
\* has increased by requestsThisRun.
C39_TotalRequestsCountsEveryLookup ==
    [][(script = "fl" /\ pc \in {"ckptProgress", "finalProgress"}
        /\ script' = "fl")
       => diskFullProgress'.totalRequests
              = diskFullProgress.totalRequests + FL_UnsavedRequests]_vars

\* Time passes between the init-lifecycle script and the next smart-update
\* run: half a day less than the skip threshold, or the threshold.
LifecycleTicks ==
    {SKIP_IF_UPDATED_WITHIN_DAYS * MS_PER_DAY - 1,
     SKIP_IF_UPDATED_WITHIN_DAYS * MS_PER_DAY}

NextInitSU ==
    \/ InitLifecycleRun
    \/ SU_Start
    \/ \E resp \in HttpResponses : SU_Fetch(resp)
    \/ SU_Save
    \/ SU_SaveVersion
    \/ SU_SaveLifecycle
    \/ Finish
    \/ \E d \in LifecycleTicks :
          now + d <= SKIP_IF_UPDATED_WITHIN_DAYS * MS_PER_DAY /\ Tick(d)

\* The init-lifecycle script and smart-update, run at three distances in time.
SpecInitSU == InitSU /\ [][NextInitSU]_vars

\* The lifecycle file is as the init-lifecycle script wrote it at time t0 for
\* the Ruleset now on disk.
InitializedAt(t0) == diskLifecycle = initLifecycle(diskRules, t0)

\* The pairs of the queue a smart-update run has just built.
QueuedPairs(q) == {q[k].pair : k \in DOMAIN q}

\* The priority-passport pairs that are missing or 'unknown'.
MissingOrUnknown == {pr \in SU_Pairs : ~Good(diskRules[pr])}

\* A step of the init-lifecycle script.
InitLifecycleStep == script = "idle" /\ script' = "idle" /\ runs' # runs

\* C40 as stated: the init-lifecycle script gives a pair a timestamp iff the
\* Ruleset has a record for it with a requirement that is not 'unknown', and
\* the first smart-update queue after it, whenever it is built, is exactly
\* the priority-passport pairs that are missing or 'unknown'.
C40_FirstQueueIsMissingOrUnknown ==
    [][/\ InitLifecycleStep =>
            \A pr \in PairKeys :
                diskLifecycle'[pr] # None
                    <=> (diskRules[pr].exists
                         /\ diskRules[pr].requirement # ""
                         /\ diskRules[pr].requirement # "unknown")
       /\ (script = "idle" /\ script' = "su"
           /\ \E t0 \in 0..now : InitializedAt(t0))
            => QueuedPairs(queue') = MissingOrUnknown]_vars

\* C40, amended: the same, for a first smart-update queue that is built less
\* than SKIP_IF_UPDATED_WITHIN_DAYS after the init-lifecycle script ran.
C40_FirstQueueWithinSkipThreshold ==
    [][/\ InitLifecycleStep =>
            \A pr \in PairKeys :
                diskLifecycle'[pr] =
                    IF /\ diskRules[pr].exists
                       /\ diskRules[pr].requirement # ""
                       /\ diskRules[pr].requirement # "unknown"
                    THEN now ELSE None
       /\ (script = "idle" /\ script' = "su"
           /\ \E t0 \in 0..now :
                /\ InitializedAt(t0)
                /\ now - t0 < SKIP_IF_UPDATED_WITHIN_DAYS * MS_PER_DAY)
            => QueuedPairs(queue') = MissingOrUnknown]_vars

\* C40's case: a smart-update run, started 29.5 days after the init-lifecycle
\* script wrote timestamps for good records, has queued the missing and
\* 'unknown' pairs and none of the good ones.
C40_Witness ==
    /\ script = "su"
    /\ pc = "loop"
    /\ lookups = 0
    /\ now = SKIP_IF_UPDATED_WITHIN_DAYS * MS_PER_DAY - 1
    /\ memLifecycle = initLifecycle(startRules, 0)
    /\ \E pr \in SU_Pairs : memLifecycle[pr] = 0
    /\ QueuedPairs(queue) = {pr \in SU_Pairs : ~Good(startRules[pr])}
    /\ Cardinality(QueuedPairs(queue)) >= 2

=============================================================================
